---- MODULE Spec2Model ----
(***************************************************************************)
(* Session rating and adaptive-review engine of math_blaster               *)
(* (src/rate_session.py), as a state machine: one call of rate_session     *)
(* walks from "start" to "done" through the stages of the function body.   *)
(*                                                                         *)
(* Conventions                                                             *)
(*  - a problem statement is a sequence of one-character strings; the two  *)
(*    canonical operator glyphs, U+00D7 and U+00F7, are written Times and  *)
(*    Obelus because the module text is ASCII;                             *)
(*  - Python floats are exact rationals <<n, d>> with d > 0, in lowest     *)
(*    terms (binary rounding error is not modelled);                       *)
(*  - a parsed timestamp is a whole number of days on a fixed calendar;    *)
(*  - None is the empty tuple; a value that may be None is a tuple:        *)
(*    a float is <<n, d>>, a timestamp <<day>>, an answer <<value>>.       *)
(***************************************************************************)
EXTENDS Integers, Sequences, FiniteSets, TLC

None == <<>>

\* ------------------------------------------------------------ bounds
\* longest log drawn from the whole record catalogue
MaxItems == 2
\* longest log drawn from the ladder records (several levels, right and wrong)
MaxLadder == 3
\* longest log drawn from the drill records (mistakes and a slow division),
\* no record twice
MaxDrill == 4
\* most copies of one record in a log that repeats a single record
MaxRepeat == 5
\* longest log drawn from the edge records (another user, unreadable fields)
MaxEdge == 2
\* longest log drawn from the theme records (one wrong item of every theme)
MaxTheme == 2
\* longest log drawn from the division records (timed divisions)
MaxDivision == 3
\* latest timestamp of a stamped record, and latest day of a call, in half-lives
MaxStamp == 4
MaxNow == 2
\* longest problem statement drawn from the statement alphabet
MaxExpr == 5
\* most calls of rate_session that one process makes in a row
MaxCalls == 3
\* the longest log of the progress family
MaxProgress == 6
\* the largest operand of the facts
MaxOperand == 12
\* the threads that use the logger, the last clock reading, and the most
\* problems generated
MaxThreads == 2
\* the longest log of the score family
MaxScore == 2
MaxClock == 2
MaxGenerated == 3

\* ------------------------------------------------------------ rationals
RECURSIVE Gcd(_, _)
Gcd(a, b) == IF b = 0 THEN a ELSE Gcd(b, a % b)

Abs(x) == IF x < 0 THEN -x ELSE x

Rat(n, d) ==
    LET g == Gcd(Abs(n), Abs(d))
        s == IF d < 0 THEN -1 ELSE 1
    IN  IF n = 0 THEN <<0, 1>> ELSE <<(s * n) \div g, (s * d) \div g>>

RZero == <<0, 1>>
ROne == <<1, 1>>
RAdd(x, y) == Rat(x[1] * y[2] + y[1] * x[2], x[2] * y[2])
RSub(x, y) == Rat(x[1] * y[2] - y[1] * x[2], x[2] * y[2])
RMul(x, y) == Rat(x[1] * y[1], x[2] * y[2])
RDiv(x, y) == Rat(x[1] * y[2], x[2] * y[1])
RLe(x, y) == x[1] * y[2] <= y[1] * x[2]
RLt(x, y) == x[1] * y[2] < y[1] * x[2]
RMin(x, y) == IF RLe(x, y) THEN x ELSE y
RMax(x, y) == IF RLe(x, y) THEN y ELSE x

\* round(x, k digits) for x >= 0, as the integer x * scale rounded half-to-even
RoundScaled(x, scale) ==
    LET num == x[1] * scale
        q == num \div x[2]
        r == num % x[2]
    IN  IF 2 * r > x[2] THEN q + 1
        ELSE IF 2 * r < x[2] THEN q
        ELSE IF q % 2 = 0 THEN q ELSE q + 1

\* round(x, 3) as a rational
Round3(x) == Rat(RoundScaled(x, 1000), 1000)

RECURSIVE RSum(_)
RSum(s) == IF s = <<>> THEN RZero ELSE RAdd(Head(s), RSum(Tail(s)))

\* ------------------------------------------------------------ configuration
Times == "times"
Obelus == "obelus"

EXPECTED_TIME_BY_LEVEL ==
    [lv \in 1..10 |->
        CASE lv = 1 -> Rat(20, 10) [] lv = 2 -> Rat(22, 10) [] lv = 3 -> Rat(28, 10)
          [] lv = 4 -> Rat(28, 10) [] lv = 5 -> Rat(22, 10) [] lv = 6 -> Rat(30, 10)
          [] lv = 7 -> Rat(40, 10) [] lv = 8 -> Rat(50, 10) [] lv = 9 -> Rat(65, 10)
          [] lv = 10 -> Rat(75, 10)]

RECENCY_HALF_LIFE_DAYS == 14
MIN_ITEMS_FOR_LEVEL == 4

ASCII_TO_CANON(ch) == IF ch = "*" THEN Times ELSE IF ch = "/" THEN Obelus ELSE ch
CANON_TO_ASCII(ch) == IF ch = Times THEN "*" ELSE IF ch = Obelus THEN "/" ELSE ch

\* ------------------------------------------------------------ characters
Whitespace == {" ", "\t"}
Digits == {"0", "1", "2", "3", "4", "5", "6", "7", "8", "9"}
OpChars == {Times, Obelus, "+", "-", "(", ")"}

DigitVal(ch) ==
    CASE ch = "0" -> 0 [] ch = "1" -> 1 [] ch = "2" -> 2 [] ch = "3" -> 3 [] ch = "4" -> 4
      [] ch = "5" -> 5 [] ch = "6" -> 6 [] ch = "7" -> 7 [] ch = "8" -> 8 [] ch = "9" -> 9

\* s[i..], and s[..i]
Drop(s, i) == SubSeq(s, i, Len(s))
Take(s, i) == SubSeq(s, 1, i)

\* the first index >= i that does not hold a whitespace character (Len(s)+1 if none):
\* where a greedy \s* that starts at i stops
RECURSIVE SkipWs(_, _)
SkipWs(s, i) == IF i <= Len(s) /\ s[i] \in Whitespace THEN SkipWs(s, i + 1) ELSE i

\* the first index >= i that does not hold a digit
RECURSIVE SkipDigits(_, _)
SkipDigits(s, i) == IF i <= Len(s) /\ s[i] \in Digits THEN SkipDigits(s, i + 1) ELSE i

Contains(s, ch) == \E i \in 1..Len(s) : s[i] = ch

MapChars(s, F(_)) == [i \in 1..Len(s) |-> F(s[i])]

\* str.strip()
RECURSIVE RStrip(_)
RStrip(s) == IF s # <<>> /\ s[Len(s)] \in Whitespace THEN RStrip(Take(s, Len(s) - 1)) ELSE s
Strip(s) == RStrip(Drop(s, SkipWs(s, 1)))

\* ------------------------------------------------------------ expressions
\* does s[i..] match  \s*=\s*\??\s*$
EqSuffixAt(s, i) ==
    LET j == SkipWs(s, i)
    IN  /\ j <= Len(s)
        /\ s[j] = "="
        /\ LET k == SkipWs(s, j + 1)
               q == IF k <= Len(s) /\ s[k] = "?" THEN k + 1 ELSE k
           IN  SkipWs(s, q) = Len(s) + 1

\* re.sub(r"\s*=\s*\??\s*$", "", s): the leftmost match is removed
DropTrailingEq(s) ==
    LET starts == {i \in 1..Len(s) : EqSuffixAt(s, i)}
    IN  IF starts = {} THEN s
        ELSE Take(s, (CHOOSE i \in starts : \A j \in starts : i <= j) - 1)

\* re.sub(r"\s+", " ", s)
RECURSIVE CollapseWs(_)
CollapseWs(s) ==
    IF s = <<>> THEN <<>>
    ELSE IF s[1] \in Whitespace THEN <<" ">> \o CollapseWs(Drop(s, SkipWs(s, 1)))
    ELSE <<s[1]>> \o CollapseWs(Tail(s))

\* re.sub(r"\s*([x:+\-()])\s*", r" \1 ", s) over the canonical operators
RECURSIVE SpaceOps(_)
SpaceOps(s) ==
    IF s = <<>> THEN <<>>
    ELSE LET j == SkipWs(s, 1)
         IN  IF j <= Len(s) /\ s[j] \in OpChars
             THEN <<" ", s[j], " ">> \o SpaceOps(Drop(s, SkipWs(s, j + 1)))
             ELSE <<s[1]>> \o SpaceOps(Tail(s))

\* re.sub(r"\s{2,}", " ", s)
RECURSIVE Squeeze(_)
Squeeze(s) ==
    IF s = <<>> THEN <<>>
    ELSE LET j == SkipWs(s, 1)
         IN  IF j > 2 THEN <<" ">> \o Squeeze(Drop(s, j))
             ELSE <<s[1]>> \o Squeeze(Tail(s))

normalize_expr(expr) ==
    LET s1 == DropTrailingEq(Strip(expr))
        s2 == MapChars(s1, ASCII_TO_CANON)
        s3 == CollapseWs(s2)
        s4 == Strip(SpaceOps(s3))
    IN  Squeeze(s4)

render_expr(expr, ops_style) ==
    IF ops_style = "ascii" THEN MapChars(expr, CANON_TO_ASCII) ELSE expr

\* re.search of  (x\s*0)|(\+\s*0)|(-\s*0)|(:\s*1)|(x\s*1)
looks_like_identity(expr) ==
    \E i \in 1..Len(expr) :
        LET j == SkipWs(expr, i + 1)
        IN  /\ j <= Len(expr)
            /\ \/ expr[i] \in {Times, "+", "-"} /\ expr[j] = "0"
               \/ expr[i] \in {Obelus, Times} /\ expr[j] = "1"

op_kind(expr) ==
    IF Contains(expr, "(") \/ Contains(expr, ")") THEN "parentheses"
    ELSE IF Contains(expr, Times) THEN "multiply"
    ELSE IF Contains(expr, Obelus) THEN "divide"
    ELSE IF Contains(expr, "+") /\ Contains(expr, "-") THEN "mixed"
    ELSE IF Contains(expr, "+") THEN "add"
    ELSE IF Contains(expr, "-") THEN "subtract"
    ELSE "other"

\* int() of a run of digits
RECURSIVE ParseInt(_)
ParseInt(ds) ==
    IF ds = <<>> THEN 0 ELSE 10 * ParseInt(Take(ds, Len(ds) - 1)) + DigitVal(ds[Len(ds)])

\* the groups of  ^\s*(\d+)\s*<op>\s*(\d+)\s*$  as <<a, b>>, or None without a match
MatchBinary(expr, op) ==
    LET a0 == SkipWs(expr, 1)
        a1 == SkipDigits(expr, a0)
        o == SkipWs(expr, a1)
        b0 == SkipWs(expr, o + 1)
        b1 == SkipDigits(expr, b0)
    IN  IF /\ a1 > a0
           /\ o <= Len(expr) /\ expr[o] = op
           /\ b1 > b0
           /\ SkipWs(expr, b1) = Len(expr) + 1
        THEN <<ParseInt(SubSeq(expr, a0, a1 - 1)), ParseInt(SubSeq(expr, b0, b1 - 1))>>
        ELSE None

\* A hint is <<text, b, a>>: its text with the two glyphs written x and :, and
\* the two numbers the division hint f"Think inverse: {b}x?={a}." formats in
\* (0, 0 for a fixed text).
Hint(text) == <<text, 0, 0>>

make_hint(expr, kind) ==
    IF looks_like_identity(expr) THEN Hint("Zero wipes, one keeps.")
    ELSE IF kind = "parentheses" THEN Hint("Group first, then multiply.")
    ELSE IF kind = "divide" THEN
        LET m == MatchBinary(expr, Obelus)
        IN  IF m # None THEN <<"Think inverse: {b}x?={a}.", m[2], m[1]>>
            ELSE Hint("Think inverse product.")
    ELSE IF kind = "multiply" THEN
        LET m == MatchBinary(expr, Times)
        IN  IF m # None /\ ((11 <= m[1] /\ m[1] <= 15) \/ (11 <= m[2] /\ m[2] <= 15))
            THEN Hint("Break into x10 + x(rest).")
            ELSE IF m # None /\ (m[2] = 9 \/ m[1] = 9) THEN Hint("x9 = x10 - the number.")
            ELSE Hint("Use known facts or break apart.")
    ELSE IF kind = "subtract" THEN Hint("Use complements to 10 or count up.")
    ELSE IF kind = "add" THEN Hint("Make a 10, then add.")
    ELSE Hint("Work step by step.")

\* ------------------------------------------------------------ timestamps
\* A raw timestamp of a record is None (missing), <<"iso", day>> (an ISO-8601
\* text naming that day) or <<"bad">> (any other text).
parse_ts(ts) == IF ts # None /\ ts[1] = "iso" THEN <<ts[2]>> ELSE None

RECURSIVE Pow2(_)
Pow2(k) == IF k = 0 THEN 1 ELSE 2 * Pow2(k - 1)

\* recency_weight with a half-life of half the configured one
recency_weight_hasty(ts, now) ==
    IF ts = None THEN ROne
    ELSE LET k == (2 * (now - ts[1])) \div RECENCY_HALF_LIFE_DAYS
         IN  IF k >= 0 THEN Rat(1, Pow2(k)) ELSE Rat(Pow2(-k), 1)

\* 2 ** (-days / RECENCY_HALF_LIFE_DAYS), for ages of whole half-lives (the
\* only ages the record catalogue holds; the value is irrational otherwise).
\* The result is a double: from 1075 half-lives on it is 0.0, the smallest
\* positive double being 2 ** -1074.
recency_weight(ts, now) ==
    IF ts = None THEN ROne
    ELSE LET days == now - ts[1]
         IN  CASE days % RECENCY_HALF_LIFE_DAYS = 0 ->
                  LET k == days \div RECENCY_HALF_LIFE_DAYS
                  IN  IF k >= 1075 THEN RZero
                      ELSE IF k >= 0 THEN Rat(1, Pow2(k)) ELSE Rat(Pow2(-k), 1)

\* ------------------------------------------------------------ item scoring
level_time_target(level) ==
    IF level \in DOMAIN EXPECTED_TIME_BY_LEVEL THEN EXPECTED_TIME_BY_LEVEL[level]
    ELSE LET keys == DOMAIN EXPECTED_TIME_BY_LEVEL
             close == CHOOSE k \in keys :
                        \A j \in keys : \/ Abs(k - level) < Abs(j - level)
                                        \/ Abs(k - level) = Abs(j - level) /\ k <= j
         IN  EXPECTED_TIME_BY_LEVEL[close]

Clamp01(x) == RMax(RZero, RMin(ROne, x))

speed_score(time_elapsed, level) ==
    LET target == level_time_target(level)
    IN  IF time_elapsed = None \/ RLe(time_elapsed, RZero) THEN Rat(25, 100)
        ELSE LET ratio == RMax(RZero, RSub(RDiv(time_elapsed, target), ROne))
                 raw == IF RLe(time_elapsed, RMul(Rat(6, 10), target))
                        THEN RMin(Rat(105, 100),
                                  RAdd(ROne, RDiv(RSub(target, time_elapsed),
                                                  RMul(Rat(4, 1), target))))
                        ELSE RDiv(ROne, RAdd(ROne, ratio))
             IN  Clamp01(raw)

correctness_score(correct) == IF correct THEN ROne ELSE RZero

\* A status is its text cut at the first underscore: <<"answered">>,
\* <<"generated">>, <<"skipped", "_timeout">>, and <<>> for the empty text.
StartsWithSkipped(status) == status # <<>> /\ status[1] = "skipped"

\* item_score without the 0.75 factor for a wrong identity fact
item_score_full_penalty(item) ==
    IF StartsWithSkipped(item.status) THEN Rat(15, 100)
    ELSE LET c == correctness_score(item.correct)
             sp == IF item.user_answer # None
                   THEN speed_score(item.time_elapsed, item.level)
                   ELSE Rat(25, 100)
         IN  Clamp01(RAdd(RMul(Rat(7, 10), c), RMul(Rat(3, 10), sp)))

item_score(item) ==
    IF StartsWithSkipped(item.status) THEN Rat(15, 100)
    ELSE LET c == correctness_score(item.correct)
             sp == IF item.user_answer # None
                   THEN speed_score(item.time_elapsed, item.level)
                   ELSE Rat(25, 100)
             base == RAdd(RMul(Rat(7, 10), c), RMul(Rat(3, 10), sp))
             pen == IF ~item.correct /\ looks_like_identity(item.problem_statement)
                    THEN RMul(base, Rat(75, 100))
                    ELSE base
         IN  Clamp01(pen)

\* ------------------------------------------------------------ ItemEval
\* A raw time_elapsed of a record is None (missing or null), a number <<n, d>>
\* or <<"bad">> (a text that is no number); float() raises on the last.
FloatRaises(time_elapsed) == time_elapsed # None /\ Len(time_elapsed) = 1

\* A log record is [username, problem_statement, status, is_correct, level,
\* user_answer, time_elapsed, timestamp]; generator_type and correct_answer
\* are carried through unread and left out.
\* ItemEval that takes is_correct as it is logged, whatever the status
ItemEval_trusting(d) ==
    [correct |-> d.is_correct,
     level |-> d.level,
     time_elapsed |-> d.time_elapsed,
     timestamp |-> parse_ts(d.timestamp),
     status |-> d.status,
     problem_statement |-> normalize_expr(d.problem_statement),
     user_answer |-> d.user_answer]

ItemEval(d) ==
    [correct |-> IF d.status = <<"answered">> THEN d.is_correct ELSE FALSE,
     level |-> d.level,
     time_elapsed |-> d.time_elapsed,
     timestamp |-> parse_ts(d.timestamp),
     status |-> d.status,
     problem_statement |-> normalize_expr(d.problem_statement),
     user_answer |-> d.user_answer]

\* BuildItems without the username filter of lines 251-252
RECURSIVE BuildItems_any_user(_, _)
BuildItems_any_user(log, user) ==
    IF log = <<>> THEN <<>>
    ELSE <<ItemEval(Head(log))>> \o BuildItems_any_user(Tail(log), user)

\* the ItemEvals of the records that carry the username, in log order
RECURSIVE BuildItems(_, _)
BuildItems(log, user) ==
    IF log = <<>> THEN <<>>
    ELSE IF Head(log).username # user THEN BuildItems(Tail(log), user)
    ELSE <<ItemEval(Head(log))>> \o BuildItems(Tail(log), user)

\* the loop of lines 250-267 reaches a record of the user that float() rejects
\* BuildRaises with the fields of every record converted before the username
\* is compared
BuildRaises_any_user(log, user) ==
    \E i \in 1..Len(log) : FloatRaises(log[i].time_elapsed)

BuildRaises(log, user) ==
    \E i \in 1..Len(log) : log[i].username = user /\ FloatRaises(log[i].time_elapsed)

\* ------------------------------------------------------------ aggregation
SetMax(S) == CHOOSE x \in S : \A y \in S : y <= x
SetMin(S) == CHOOSE x \in S : \A y \in S : x <= y

\* sorted(S) for a set of integers
RECURSIVE SortedSeq(_)
SortedSeq(S) == IF S = {} THEN <<>> ELSE <<SetMin(S)>> \o SortedSeq(S \ {SetMin(S)})

SeqMap(s, F(_)) == [i \in 1..Len(s) |-> F(s[i])]

Weights(its, now) == SeqMap(its, LAMBDA it : recency_weight(it.timestamp, now))
\* WeightedRaws that forgets the weight: sum(raw) over sum(w)
WeightedRaws_unweighted(its, now) == SeqMap(its, LAMBDA it : item_score(it))

WeightedRaws(its, now) ==
    SeqMap(its, LAMBDA it : RMul(item_score(it), recency_weight(it.timestamp, now)))

\* sum(raw * w) / (sum(w) or 1.0)
WeightedScore(its, now) ==
    LET W == RSum(Weights(its, now))
    IN  RDiv(RSum(WeightedRaws(its, now)), IF W = RZero THEN ROne ELSE W)

LevelsOf(its) == {its[i].level : i \in 1..Len(its)}

\* LevelStat that counts every item of the level as attempted
LevelStat_all_attempted(its, lv, now) ==
    LET sub == SelectSeq(its, LAMBDA it : it.level = lv)
        correct == SelectSeq(sub, LAMBDA it : it.correct)
    IN  [attempted |-> Len(sub),
         correct |-> Len(correct),
         accuracy |-> IF sub = <<>> THEN None
                      ELSE Round3(Rat(Len(correct), Len(sub))),
         score_0_1 |-> Round3(WeightedScore(sub, now)),
         expected_time |-> level_time_target(lv)]

\* one entry of level_stats (the median and percentile fields, which nothing
\* else in the function reads, are left out)
LevelStat(its, lv, now) ==
    LET sub == SelectSeq(its, LAMBDA it : it.level = lv)
        answered == SelectSeq(sub, LAMBDA it : it.status = <<"answered">>)
        correct == SelectSeq(answered, LAMBDA it : it.correct)
    IN  [attempted |-> Len(answered),
         correct |-> Len(correct),
         accuracy |-> IF answered = <<>> THEN None
                      ELSE Round3(Rat(Len(correct), Len(answered))),
         score_0_1 |-> Round3(WeightedScore(sub, now)),
         expected_time |-> level_time_target(lv)]

LevelStats(its, now) == [lv \in LevelsOf(its) |-> LevelStat(its, lv, now)]

\* ------------------------------------------------------------ mastery
\* the attempt threshold without the halving
MinAttempts_unhalved == MIN_ITEMS_FOR_LEVEL

\* max(2, MIN_ITEMS_FOR_LEVEL // 2)
MinAttempts == IF MIN_ITEMS_FOR_LEVEL \div 2 > 2 THEN MIN_ITEMS_FOR_LEVEL \div 2 ELSE 2

MasteredLevels(stats) ==
    {lv \in DOMAIN stats :
        RLe(Rat(70, 100), stats[lv].score_0_1) /\ stats[lv].attempted >= MinAttempts}

EstimatedLevel(stats) ==
    IF MasteredLevels(stats) # {} THEN SetMax(MasteredLevels(stats))
    ELSE SetMin(DOMAIN stats)

\* diffs: the drop sa - sb of every adjacent pair of sorted levels, by index
Drops(stats) ==
    LET ls == SortedSeq(DOMAIN stats)
    IN  [i \in 1..(Len(ls) - 1) |-> RSub(stats[ls[i]].score_0_1, stats[ls[i + 1]].score_0_1)]

\* FalloffLevel that stops at the first pair whose drop exceeds 0.1
FalloffLevel_first_drop(stats) ==
    LET ls == SortedSeq(DOMAIN stats)
        diffs == Drops(stats)
        over == {k \in DOMAIN diffs : RLt(Rat(1, 10), diffs[k])}
    IN  IF over = {} THEN None ELSE <<ls[SetMin(over) + 1]>>

\* max(diffs, key=drop) returns the first pair of maximal drop
FalloffLevel(stats) ==
    LET ls == SortedSeq(DOMAIN stats)
        diffs == Drops(stats)
    IN  IF Len(ls) < 2 THEN None
        ELSE LET i == CHOOSE k \in DOMAIN diffs :
                        /\ \A j \in DOMAIN diffs : RLe(diffs[j], diffs[k])
                        /\ \A j \in DOMAIN diffs : j < k => RLt(diffs[j], diffs[k])
             IN  IF RLt(Rat(1, 10), diffs[i]) THEN <<ls[i + 1]>> ELSE None

\* RecommendedLevel without the cap at the highest level seen
RecommendedLevel_uncapped(stats) ==
    LET falloff_level == FalloffLevel(stats)
        est == EstimatedLevel(stats)
    IN  IF falloff_level # None THEN falloff_level[1] ELSE est + 1

RecommendedLevel(stats) ==
    LET falloff_level == FalloffLevel(stats)
        est == EstimatedLevel(stats)
        top == SetMax(DOMAIN stats)
        up == IF est + 1 > est THEN est + 1 ELSE est
    IN  IF falloff_level # None THEN falloff_level[1]
        ELSE IF top < up THEN top ELSE up

\* ------------------------------------------------------------ themes
\* insertion of x into an ascending sequence of rationals
RECURSIVE RInsert(_, _)
RInsert(x, s) ==
    IF s = <<>> THEN <<x>>
    ELSE IF RLe(x, Head(s)) THEN <<x>> \o s
    ELSE <<Head(s)>> \o RInsert(x, Tail(s))

RECURSIVE RSorted(_)
RSorted(s) == IF s = <<>> THEN <<>> ELSE RInsert(Head(s), RSorted(Tail(s)))

\* a median that takes the upper of the two middle values of an even count
Median_upper(s) ==
    LET t == RSorted(s)
    IN  t[Len(t) \div 2 + 1]

\* statistics.median of a non-empty list
Median(s) ==
    LET t == RSorted(s)
        n == Len(t)
    IN  IF n % 2 = 1 THEN t[(n + 1) \div 2]
        ELSE RDiv(RAdd(t[n \div 2], t[n \div 2 + 1]), Rat(2, 1))

IsWrong(it) == it.status = <<"answered">> /\ ~it.correct

CountIf(its, P(_)) == Len(SelectSeq(its, P))

\* infer_themes_for_review that counts a wrong multiplication of any level as
\* a hard fact
infer_themes_any_level(its) ==
    LET div_items == SelectSeq(its, LAMBDA it :
                        /\ op_kind(it.problem_statement) = "divide"
                        /\ it.time_elapsed # None
                        /\ it.level \in {6, 8})
        div_times == SeqMap(div_items, LAMBDA it : it.time_elapsed)
    IN  [identity_errors |->
            CountIf(its, LAMBDA it : IsWrong(it) /\ looks_like_identity(it.problem_statement)),
         parentheses_errors |->
            CountIf(its, LAMBDA it : IsWrong(it) /\ op_kind(it.problem_statement) = "parentheses"),
         division_slow |->
            IF div_times # <<>> /\ RLt(Rat(4, 1), Median(div_times)) THEN 1 ELSE 0,
         division_errors |->
            CountIf(its, LAMBDA it : IsWrong(it) /\ op_kind(it.problem_statement) = "divide"),
         subtraction_slips |->
            CountIf(its, LAMBDA it : IsWrong(it) /\ op_kind(it.problem_statement) = "subtract"),
         multiplication_hardfacts |->
            CountIf(its, LAMBDA it : /\ IsWrong(it)
                                     /\ op_kind(it.problem_statement) = "multiply")]

infer_themes_for_review(its) ==
    LET div_items == SelectSeq(its, LAMBDA it :
                        /\ op_kind(it.problem_statement) = "divide"
                        /\ it.time_elapsed # None
                        /\ it.level \in {6, 8})
        div_times == SeqMap(div_items, LAMBDA it : it.time_elapsed)
    IN  [identity_errors |->
            CountIf(its, LAMBDA it : IsWrong(it) /\ looks_like_identity(it.problem_statement)),
         parentheses_errors |->
            CountIf(its, LAMBDA it : IsWrong(it) /\ op_kind(it.problem_statement) = "parentheses"),
         division_slow |->
            IF div_times # <<>> /\ RLt(Rat(4, 1), Median(div_times)) THEN 1 ELSE 0,
         division_errors |->
            CountIf(its, LAMBDA it : IsWrong(it) /\ op_kind(it.problem_statement) = "divide"),
         subtraction_slips |->
            CountIf(its, LAMBDA it : IsWrong(it) /\ op_kind(it.problem_statement) = "subtract"),
         multiplication_hardfacts |->
            CountIf(its, LAMBDA it : /\ IsWrong(it)
                                     /\ op_kind(it.problem_statement) = "multiply"
                                     /\ it.level >= 7)]

\* ------------------------------------------------------------ progress notes
\* sorted(per_item, key=lambda t: (t[0].timestamp or now)): a stable sort by
\* day, an item without timestamp taking the day of the call
TimeKey(it, now) == IF it.timestamp = None THEN now ELSE it.timestamp[1]

RECURSIVE InsertByTime(_, _, _)
InsertByTime(x, s, now) ==
    IF s = <<>> THEN <<x>>
    ELSE IF TimeKey(x, now) <= TimeKey(Head(s), now) THEN <<x>> \o s
         ELSE <<Head(s)>> \o InsertByTime(x, Tail(s), now)

RECURSIVE ByTime(_, _)
ByTime(its, now) ==
    IF its = <<>> THEN <<>> ELSE InsertByTime(Head(its), ByTime(Tail(its), now), now)

\* _avg_acc: the share of the items that are answered and correct
avg_acc(arr) ==
    Rat(CountIf(arr, LAMBDA it : it.correct /\ it.status = <<"answered">>),
        IF Len(arr) > 1 THEN Len(arr) ELSE 1)

\* _median_time: the median time of the answered items that have one
median_time(arr) ==
    LET ts == SeqMap(SelectSeq(arr, LAMBDA it : /\ it.time_elapsed # None
                                                /\ it.status = <<"answered">>),
                     LAMBDA it : it.time_elapsed)
    IN  IF ts # <<>> THEN Median(ts) ELSE None

\* the truth value of a median in "if mt_first and mt_second": None and 0.0
\* are false
Truthy(mt) == mt # None /\ mt # RZero

\* lines 352-356
SpeedNotes(first, second) ==
    LET mt_first == median_time(first)
        mt_second == median_time(second)
    IN  IF Truthy(mt_first) /\ Truthy(mt_second)
        THEN IF RLt(Rat(4, 10), RSub(mt_first, mt_second))
             THEN <<"You sped up in the second half.">>
             ELSE IF RLt(Rat(4, 10), RSub(mt_second, mt_first))
                  THEN <<"You slowed down later (possible fatigue or tougher items).">>
                  ELSE <<>>
        ELSE <<>>

\* lines 348-351
AccuracyNotes(first, second) ==
    LET acc_first == avg_acc(first)
        acc_second == avg_acc(second)
    IN  IF RLt(Rat(5, 100), RSub(acc_second, acc_first))
        THEN <<"Accuracy improved as you went.">>
        ELSE IF RLt(Rat(5, 100), RSub(acc_first, acc_second))
             THEN <<"Accuracy dipped later in the session (fatigue or harder items).">>
             ELSE <<>>

\* line 333: the fewest items that give a trend
TrendFrom == 6

FirstHalf(its, now) == Take(ByTime(its, now), Len(its) \div 2)
SecondHalf(its, now) == Drop(ByTime(its, now), Len(its) \div 2 + 1)

\* lines 332-360
ProgressNotes(its, now) ==
    IF Len(its) >= TrendFrom
    THEN LET first == FirstHalf(its, now)
             second == SecondHalf(its, now)
             notes == AccuracyNotes(first, second) \o SpeedNotes(first, second)
         IN  IF notes = <<>> THEN <<"Performance was steady across the session.">>
             ELSE notes
    ELSE <<"Not enough items to assess within-session trend.">>

\* ------------------------------------------------------------ review pools
\* (it.timestamp is None, it.timestamp) of a is greater than that of b
MistakeKeyGt(a, b) ==
    IF a.timestamp = None THEN b.timestamp # None
    ELSE b.timestamp # None /\ a.timestamp[1] > b.timestamp[1]

\* list.sort(key=..., reverse=True): descending and stable
RECURSIVE SortMistakes(_)
RECURSIVE InsertDesc(_, _)
InsertDesc(x, s) ==
    IF s = <<>> THEN <<x>>
    ELSE IF MistakeKeyGt(Head(s), x) THEN <<Head(s)>> \o InsertDesc(x, Tail(s))
    ELSE <<x>> \o s
SortMistakes(s) == IF s = <<>> THEN <<>> ELSE InsertDesc(Head(s), SortMistakes(Tail(s)))

\* pool entries are <<expr_canon, level, hint>>
PoolEntry(it) ==
    <<it.problem_statement, it.level,
      make_hint(it.problem_statement, op_kind(it.problem_statement))>>

\* the first occurrence of every (statement, level) of a pool, in order
RECURSIVE UniqPool(_, _)
UniqPool(pool, seen) ==
    IF pool = <<>> THEN <<>>
    ELSE LET key == <<Head(pool)[1], Head(pool)[2]>>
         IN  IF key \in seen THEN UniqPool(Tail(pool), seen)
             ELSE <<Head(pool)>> \o UniqPool(Tail(pool), seen \cup {key})

\* collect_mistakes without its seen set: every wrong item is replayed
collect_mistakes_keep_repeats(its) ==
    SeqMap(SortMistakes(SelectSeq(its, IsWrong)), PoolEntry)

collect_mistakes(its) ==
    LET wrong == SelectSeq(its, IsWrong)
    IN  UniqPool(SeqMap(SortMistakes(wrong), PoolEntry), {})

IsSlowDivision(it) ==
    /\ it.status = <<"answered">>
    /\ it.time_elapsed # None
    /\ op_kind(it.problem_statement) = "divide"
    /\ RLt(RMax(Rat(4, 1), RMul(Rat(15, 10), level_time_target(it.level))), it.time_elapsed)

collect_slow(its) == UniqPool(SeqMap(SelectSeq(its, IsSlowDivision), PoolEntry), {})

\* ------------------------------------------------------------ review problems
\* number of review problems rate_session asks for
ReviewCount == 6

\* A review problem is the dict {problem_statement, level, hint}; origin is a
\* history field that records the step that added it and is read by no step.
Problem(cand, ops_style, origin) ==
    [problem_statement |-> render_expr(cand[1], ops_style),
     level |-> cand[2],
     hint |-> cand[3],
     origin |-> origin]

HasStatement(problems, cand, ops_style) ==
    \E i \in 1..Len(problems) :
        problems[i].problem_statement = render_expr(cand[1], ops_style)

\* Quota that gives every mode the whole list
Quota_whole(review_mode, n) == n

\* n in "mistakes" mode, ceil(n / 2) otherwise
Quota(review_mode, n) == IF review_mode = "mistakes" THEN n ELSE (n + 1) \div 2

\* for c in cands: add(c); if len(problems) >= limit: break
RECURSIVE AddEach(_, _, _, _, _)
AddEach(problems, cands, limit, ops_style, origin) ==
    IF cands = <<>> THEN problems
    ELSE LET next == Append(problems, Problem(Head(cands), ops_style, origin))
         IN  IF Len(next) >= limit THEN next
             ELSE AddEach(next, Tail(cands), limit, ops_style, origin)

\* for c in cands: if its statement is not chosen yet: add(c);
\*                 if len(problems) >= limit: break
RECURSIVE AddNew(_, _, _, _, _)
AddNew(problems, cands, limit, ops_style, origin) ==
    IF cands = <<>> THEN problems
    ELSE LET next == IF HasStatement(problems, Head(cands), ops_style) THEN problems
                     ELSE Append(problems, Problem(Head(cands), ops_style, origin))
         IN  IF Len(next) >= limit THEN next
             ELSE AddNew(next, Tail(cands), limit, ops_style, origin)

\* step 1, the mistakes: only in "mistakes" and "mixed" mode
MistakeStep(problems, its, review_mode, n, ops_style) ==
    IF review_mode \in {"mistakes", "mixed"}
    THEN AddEach(problems, collect_mistakes(its), Quota(review_mode, n), ops_style, "mistake")
    ELSE problems

\* step 1, the slow division items: only while the quota is not reached
SlowStep(problems, its, review_mode, n, ops_style) ==
    IF review_mode \in {"mistakes", "mixed"} /\ Len(problems) < Quota(review_mode, n)
    THEN AddNew(problems, collect_slow(its), Quota(review_mode, n), ops_style, "slow")
    ELSE problems

\* str(n) of a natural number, and the statements the code spells or formats
RECURSIVE IntStr(_)
DigitChar(d) == <<"0", "1", "2", "3", "4", "5", "6", "7", "8", "9">>[d + 1]
IntStr(n) == IF n < 10 THEN <<DigitChar(n)>> ELSE IntStr(n \div 10) \o <<DigitChar(n % 10)>>

\* f"{a} {op} {b}", f"({a} + {b}) x {c}", f"{a} x {b} + {c}"
Bin(a, op, b) == IntStr(a) \o <<" ", op, " ">> \o IntStr(b)
Paren(a, b, c) == <<"(">> \o Bin(a, "+", b) \o <<")", " ", Times, " ">> \o IntStr(c)
Two(a, b, c) == Bin(a, Times, b) \o <<" ", "+", " ">> \o IntStr(c)

ThemedIdentity ==
    << <<Bin(7, Times, 0), 5, Hint("Zero wipes, one keeps.")>>,
       <<Bin(1, Times, 14), 7, Hint("x1 keeps the number.")>>,
       <<Bin(3, Times, 1), 5, Hint("x1 keeps the number.")>>,
       <<Bin(20, "+", 0), 1, Hint("Adding 0 keeps the number.")>>,
       <<Bin(18, Obelus, 1), 6, Hint(":1 keeps the number.")>> >>

ThemedParentheses ==
    << <<Paren(6, 20, 9), 9, Hint("Group first, then multiply.")>>,
       <<Paren(3, 16, 12), 9, Hint("Group first or distribute.")>>,
       <<IntStr(12) \o <<" ", Times, " ", "(">> \o Bin(5, "+", 7) \o <<")">>, 9,
         Hint("Group first.")>> >>

ThemedDivision ==
    << <<Bin(56, Obelus, 4), 8, <<"Think inverse: {b}x?={a}.", 4, 56>> >>,
       <<Bin(78, Obelus, 6), 8, Hint("6x13=78.")>>,
       <<Bin(225, Obelus, 15), 8, Hint("15x15=225.")>>,
       <<Bin(36, Obelus, 9), 6, Hint("9x4=36.")>> >>

ThemedSubtraction ==
    << <<Bin(12, "-", 5), 2, Hint("Use complements: (10-5)+2.")>>,
       <<Bin(14, "-", 7), 2, Hint("Doubles help: 7+7=14.")>>,
       <<Bin(20, "-", 11), 4, Hint("Count up from 11.")>> >>

ThemedHardfacts ==
    << <<Bin(13, Times, 14), 7, Hint("Break into x10 + x(rest).")>>,
       <<Bin(12, Times, 11), 7, Hint("11 rule: 12x11=132.")>>,
       <<Bin(9, Times, 15), 7, Hint("x15 = x10 + x5.")>>,
       <<Bin(14, Times, 9), 7, Hint("x9 = x10 - the number.")>> >>

\* themed: the curated lists of the active themes, in the code's order
Themed(themes) ==
    (IF themes.identity_errors # 0 THEN ThemedIdentity ELSE <<>>)
    \o (IF themes.parentheses_errors # 0 THEN ThemedParentheses ELSE <<>>)
    \o (IF themes.division_errors # 0 \/ themes.division_slow # 0
        THEN ThemedDivision ELSE <<>>)
    \o (IF themes.subtraction_slips # 0 THEN ThemedSubtraction ELSE <<>>)
    \o (IF themes.multiplication_hardfacts # 0 THEN ThemedHardfacts ELSE <<>>)

\* ThemedStep without the test for a statement that is already chosen
ThemedStep_unchecked(problems, themes, review_mode, n, ops_style) ==
    IF review_mode \in {"themes", "mixed"}
    THEN AddEach(problems, Themed(themes), n, ops_style, "theme")
    ELSE problems

\* step 2, the curated theme problems: only in "themes" and "mixed" mode
ThemedStep(problems, themes, review_mode, n, ops_style) ==
    IF review_mode \in {"themes", "mixed"}
    THEN AddNew(problems, Themed(themes), n, ops_style, "theme")
    ELSE problems

\* What outlives one call in the process that calls rate_session.
VARIABLES
    entropy,        \* the state of the generator shared through the random module
    ncalls,         \* the number of the call in progress
    earlier         \* one call made before: <<[args, report, n]>>, or None

session == <<entropy, ncalls, earlier>>

\* MathProblemLogger (src/math_problem_logger.py)
VARIABLES
    pending,        \* self.pending_problems: the entries in insertion order
    written,        \* the lines of self.log_file
    lock,           \* self.lock: None when free, <<t>> when thread t holds it
    clock,          \* the reading datetime.now() gives
    issued,         \* the problem ids log_problem_generated has returned
    result,         \* the call that returned last: [op, id, ret], or None
    to_remove,      \* to_remove of the cleanup in progress
    inner           \* the cleanup in progress is inside log_problem_skipped

logger == <<pending, written, lock, clock, issued, result, to_remove, inner>>

\* lines 45-49: the logger after construction
LoggerIdle ==
    /\ pending = <<>>
    /\ written = <<>>
    /\ lock = None
    /\ clock = 0
    /\ issued = <<>>
    /\ result = None
    /\ to_remove = <<>>
    /\ inner = FALSE

\* The draws <<a, b, c, tag>> of random.Random(1337 + level) in the six rounds
\* of _generic_by_level(level, count=6), for the levels 1..10 of the generators
\* and for 1084, the lowest positive level whose six rounds repeat a statement.
\* tag is the drawn operator (level <= 2) or form (level >= 9).
GenericDraws(level) ==
    CASE level = 1 ->
        <<<<12, 11, 0, "-">>, <<4, 10, 0, "-">>, <<7, 8, 0, "-">>, <<10, 12, 0, "+">>, <<4, 0, 0, "+">>, <<1, 11, 0, "-">>>>
      [] level = 2 ->
        <<<<10, 3, 0, "-">>, <<0, 0, 0, "-">>, <<3, 3, 0, "-">>, <<3, 8, 0, "-">>, <<5, 6, 0, "-">>, <<6, 11, 0, "+">>>>
      [] level = 3 ->
        <<<<21, 18, 0, "">>, <<15, 9, 0, "">>, <<10, 25, 0, "">>, <<13, 21, 0, "">>, <<27, 4, 0, "">>, <<26, 25, 0, "">>>>
      [] level = 4 ->
        <<<<24, 12, 0, "">>, <<28, 10, 0, "">>, <<20, 2, 0, "">>, <<14, 12, 0, "">>, <<32, 6, 0, "">>, <<10, 14, 0, "">>>>
      [] level = 5 ->
        <<<<1, 5, 0, "">>, <<8, 6, 0, "">>, <<3, 3, 0, "">>, <<10, 8, 0, "">>, <<0, 10, 0, "">>, <<3, 9, 0, "">>>>
      [] level = 6 ->
        <<<<7, 7, 0, "">>, <<5, 5, 0, "">>, <<4, 9, 0, "">>, <<7, 10, 0, "">>, <<3, 7, 0, "">>, <<9, 6, 0, "">>>>
      [] level = 7 ->
        <<<<12, 13, 0, "">>, <<12, 12, 0, "">>, <<14, 11, 0, "">>, <<13, 8, 0, "">>, <<15, 8, 0, "">>, <<11, 15, 0, "">>>>
      [] level = 8 ->
        <<<<3, 12, 0, "">>, <<9, 10, 0, "">>, <<11, 10, 0, "">>, <<5, 7, 0, "">>, <<3, 7, 0, "">>, <<12, 9, 0, "">>>>
      [] level = 9 ->
        <<<<10, 5, 3, "paren">>, <<9, 13, 7, "two">>, <<7, 18, 7, "two">>, <<14, 20, 11, "paren">>, <<7, 12, 10, "two">>, <<9, 5, 7, "two">>>>
      [] level = 10 ->
        <<<<16, 18, 5, "paren">>, <<14, 8, 5, "paren">>, <<5, 4, 6, "two">>, <<18, 7, 7, "paren">>, <<7, 8, 11, "two">>, <<14, 9, 12, "two">>>>
      [] level = 1084 ->
        <<<<1, 4, 4, "paren">>, <<9, 5, 5, "paren">>, <<2, 8, 12, "two">>, <<14, 10, 10, "paren">>, <<20, 11, 4, "paren">>, <<20, 11, 4, "paren">>>>

GenericCandidate(level, d) ==
    IF level <= 2
    THEN <<Bin(d[1], d[4], d[2]), level,
           IF d[4] = "-" THEN Hint("Count up/down.") ELSE Hint("Make a 10 then add.")>>
    ELSE IF level \in {3, 4}
    THEN <<Bin(d[1], IF level = 3 THEN "+" ELSE "-", d[2]), level, Hint("Decompose to tens.")>>
    ELSE IF level = 5
    THEN <<Bin(d[1], Times, d[2]), level, Hint("Recall core facts; use doubles.")>>
    ELSE IF level \in {6, 8}
    THEN <<Bin(d[1] * d[2], Obelus, d[2]), level, Hint("Think inverse product.")>>
    ELSE IF level = 7
    THEN <<Bin(d[1], Times, d[2]), level, Hint("Break into x10 + x(rest).")>>
    ELSE IF d[4] = "paren"
    THEN <<Paren(d[1], d[2], d[3]), level, Hint("Group first, then multiply.")>>
    ELSE <<Two(d[1], d[2], d[3]), level, Hint("Do x first, then +.")>>

\* _generic_by_level drawing from the shared generator of the random module
\* and not from a private random.Random(1337 + level): where the sequence
\* starts depends on the draws made before
generic_by_level_shared(level) ==
    [i \in 1..ReviewCount |->
        GenericCandidate(level, GenericDraws(level)[((i - 1 + entropy) % ReviewCount) + 1])]

generic_by_level(level) ==
    [i \in 1..ReviewCount |-> GenericCandidate(level, GenericDraws(level)[i])]

\* one pass of the body of "while len(problems) < n"
GenericPass(problems, practice_level, n, ops_style) ==
    AddNew(problems, generic_by_level(practice_level), n, ops_style, "generic")

\* the closing deduplication by (problem_statement, level), first seen kept
RECURSIVE Dedup(_, _)
Dedup(problems, seen) ==
    IF problems = <<>> THEN <<>>
    ELSE LET key == <<Head(problems).problem_statement, Head(problems).level>>
         IN  IF key \in seen THEN Dedup(Tail(problems), seen)
             ELSE <<Head(problems)>> \o Dedup(Tail(problems), seen \cup {key})

\* uniq[:n]
Finish(problems, n) ==
    LET uniq == Dedup(problems, {})
    IN  SubSeq(uniq, 1, IF Len(uniq) < n THEN Len(uniq) ELSE n)

\* ------------------------------------------------------------ inputs
\* Day numbers count from 2024-01-01; the call is made on 2024-01-15.
Answered == <<"answered">>
Generated == <<"generated">>
SkippedTimeout == <<"skipped", "_timeout">>
Iso(day) == <<"iso", day>>

Rec(stmt, status, ok, lvl, ans, secs, ts) ==
    [username |-> "ana", problem_statement |-> stmt, status |-> status,
     is_correct |-> ok, level |-> lvl, user_answer |-> ans,
     time_elapsed |-> secs, timestamp |-> ts]

\* the record catalogue: what one logged problem can look like
Catalogue ==
    << \* 1: an identity fact answered wrong, two weeks ago
       Rec(Bin(9, Times, 0), Answered, FALSE, 5, <<3>>, Rat(30, 10), Iso(0)),
       \* 2: "21+18=?" answered right in exactly the level-3 target time
       Rec(<<"2", "1", "+", "1", "8", "=", "?">>, Answered, TRUE, 3, <<39>>, Rat(28, 10), Iso(0)),
       \* 3: the same sum answered wrong and slowly, no timestamp
       Rec(Bin(21, "+", 18), Answered, FALSE, 3, <<38>>, Rat(85, 10), None),
       \* 4: "9*0" answered wrong at level 7, today
       Rec(<<"9", "*", "0">>, Answered, FALSE, 7, <<9>>, Rat(30, 10), Iso(14)),
       \* 5: "7 x 0" answered wrong at once, timestamp unreadable
       Rec(Bin(7, Times, 0), Answered, FALSE, 5, <<7>>, Rat(0, 1), <<"bad">>),
       \* 6: "56 / 4" answered right but slowly at level 8, today
       Rec(<<"5", "6", " ", "/", " ", "4">>, Answered, TRUE, 8, <<14>>, Rat(90, 10), Iso(14)),
       \* 7: a subtraction skipped on timeout (flagged correct all the same)
       Rec(Bin(12, "-", 5), SkippedTimeout, TRUE, 3, None, None, Iso(14)),
       \* 8: "8 x 6" answered right with an elapsed time of 0
       Rec(Bin(8, Times, 6), Answered, TRUE, 5, <<48>>, Rat(0, 1), Iso(14)),
       \* 9: a grouped product answered right at level 1084
       Rec(Paren(6, 20, 9), Answered, TRUE, 1084, <<234>>, Rat(65, 10), Iso(0)),
       \* 10: "36 : 9" recorded as answered, wrong, without an answer, slowly
       Rec(Bin(36, Obelus, 9), Answered, FALSE, 6, None, Rat(60, 10), Iso(0)) >>

\* further records: another user, unreadable fields, more themes and divisions
Extras ==
    << \* 1: a hard multiplication fact answered wrong by another user
       [Rec(Bin(8, Times, 7), Answered, FALSE, 7, <<54>>, Rat(30, 10), Iso(14))
           EXCEPT !.username = "bob"],
       \* 2: a sum answered right whose time_elapsed is a text that is no number
       Rec(Bin(6, "+", 7), Answered, TRUE, 2, <<13>>, <<"bad">>, Iso(14)),
       \* 3: a division that was only generated (flagged correct all the same)
       Rec(Bin(48, Obelus, 6), Generated, TRUE, 6, None, Rat(90, 10), Iso(14)),
       \* 4: a grouped product answered wrong
       Rec(<<"(", "2", "+", "3", ")", "*", "4">>, Answered, FALSE, 9, <<14>>, Rat(50, 10), Iso(14)),
       \* 5: a subtraction answered wrong
       Rec(Bin(15, "-", 8), Answered, FALSE, 4, <<6>>, Rat(30, 10), Iso(0)),
       \* 6: a division answered right and fast at level 6
       Rec(Bin(24, Obelus, 6), Answered, TRUE, 6, <<4>>, Rat(20, 10), Iso(14)),
       \* 7: a division answered right but slowly at level 7
       Rec(Bin(35, Obelus, 5), Answered, TRUE, 7, <<7>>, Rat(90, 10), Iso(14)),
       \* 8: a sum answered right, its timestamp two weeks after the call
       Rec(Bin(4, "+", 4), Answered, TRUE, 2, <<8>>, Rat(20, 10), Iso(28)),
       \* 9: a record of another user whose time_elapsed and timestamp are
       \* unreadable
       [Rec(Bin(9, Times, 0), Answered, FALSE, 5, <<3>>, <<"bad">>, <<"bad">>)
           EXCEPT !.username = "bob"] >>

Records == {Catalogue[i] : i \in DOMAIN Catalogue}
EdgeRecords == {Extras[1], Extras[2], Extras[3], Extras[8], Catalogue[1], Catalogue[7]}
ThemeRecords == {Catalogue[1], Catalogue[4], Catalogue[7], Catalogue[8], Catalogue[10],
                 Extras[4], Extras[5]}
DivisionRecords == {Catalogue[6], Catalogue[10], Extras[3], Extras[6], Extras[7]}
LadderRecords == {Catalogue[i] : i \in {2, 4, 6, 8}}
DrillRecords == {Catalogue[i] : i \in {1, 3, 4, 5, 6}}

SeqsUpTo(S, n) == UNION {[1..k -> S] : k \in 0..n}

\* the logs of SeqsUpTo(S, n) that hold no record twice
DistinctSeqsUpTo(S, n) ==
    {s \in SeqsUpTo(S, n) : \A i, j \in 1..Len(s) : s[i] = s[j] => i = j}

Logs ==
    SeqsUpTo(Records, MaxItems)
    \cup SeqsUpTo(LadderRecords, MaxLadder)
    \cup DistinctSeqsUpTo(DrillRecords, MaxDrill)
    \cup SeqsUpTo(EdgeRecords, MaxEdge)
    \cup SeqsUpTo(ThemeRecords, MaxTheme)
    \cup SeqsUpTo(DivisionRecords, MaxDivision)
    \cup {[i \in 1..k |-> r] : r \in Records, k \in 1..MaxRepeat}

\* the day of the call
CallDays == {14}

\* ------------------------------------------------------------ rate_session
VARIABLES
    log_items, username, now, ops_style, review_mode,   \* the arguments
    pc,             \* where the call stands
    items,          \* List[ItemEval]
    level_stats,    \* level -> LevelStat
    overall_0_1,    \* the weighted score over all items
    summary,        \* overall_score, estimated_level, recommended_practice_level,
                    \* progress_notes
    themes,         \* the theme counters
    problems,       \* the list _make_review_problems builds
    report          \* the returned dict

args == <<log_items, username, now, ops_style, review_mode>>
vars == <<log_items, username, now, ops_style, review_mode, pc, items, level_stats,
          overall_0_1, summary, themes, problems, report, entropy, ncalls, earlier,
          pending, written, lock, clock, issued, result, to_remove, inner>>

Init ==
    /\ log_items \in Logs
    /\ username = "ana"
    /\ now \in CallDays
    /\ ops_style \in {"ascii", "unicode"}
    /\ review_mode \in {"mistakes", "themes", "mixed"}
    /\ pc = "start"
    /\ items = <<>>
    /\ level_stats = <<>>
    /\ overall_0_1 = None
    /\ summary = None
    /\ themes = None
    /\ problems = <<>>
    /\ report = None
    /\ entropy = 0
    /\ ncalls = 1
    /\ earlier = None
    /\ LoggerIdle

\* lines 249-267: the ItemEvals of the user's records
Ingest ==
    /\ pc = "start"
    /\ ~BuildRaises(log_items, username)
    /\ BuildItems(log_items, username) # <<>>
    /\ items' = BuildItems(log_items, username)
    /\ pc' = "rate"
    /\ UNCHANGED <<args, session, logger, level_stats, overall_0_1, summary, themes, problems, report>>

\* line 259: float(d["time_elapsed"]) raises ValueError and the call ends
Raise ==
    /\ pc = "start"
    /\ BuildRaises(log_items, username)
    /\ pc' = "raised"
    /\ UNCHANGED <<args, session, logger, items, level_stats, overall_0_1, summary, themes, problems, report>>

\* lines 269-275: no record of the user
ReturnNoItems ==
    /\ pc = "start"
    /\ BuildItems(log_items, username) = <<>>
    /\ report' = [username |-> username,
                  summary |-> [message |-> "No items found for user."],
                  metrics |-> <<>>,
                  review_problems |-> <<>>]
    /\ pc' = "done"
    /\ UNCHANGED <<args, session, logger, items, level_stats, overall_0_1, summary, themes, problems>>

\* lines 277-362: scores, level statistics, mastery summary, progress notes
\* and themes
Rate ==
    /\ pc = "rate"
    /\ overall_0_1' = WeightedScore(items, now)
    /\ level_stats' = LevelStats(items, now)
    /\ summary' = [overall_score |-> Rat(RoundScaled(RMul(Rat(100, 1), overall_0_1'), 10), 10),
                   estimated_level |-> EstimatedLevel(level_stats'),
                   recommended_practice_level |-> RecommendedLevel(level_stats'),
                   progress_notes |-> ProgressNotes(items, now)]
    /\ themes' = infer_themes_for_review(items)
    /\ pc' = "mistakes"
    /\ UNCHANGED <<args, session, logger, items, problems, report>>

\* lines 434-443
TakeMistakes ==
    /\ pc = "mistakes"
    /\ problems' = MistakeStep(problems, items, review_mode, ReviewCount, ops_style)
    /\ pc' = "slow"
    /\ UNCHANGED <<args, session, logger, items, level_stats, overall_0_1, summary, themes, report>>

\* lines 444-451
TakeSlow ==
    /\ pc = "slow"
    /\ problems' = SlowStep(problems, items, review_mode, ReviewCount, ops_style)
    /\ pc' = "themed"
    /\ UNCHANGED <<args, session, logger, items, level_stats, overall_0_1, summary, themes, report>>

\* lines 453-496
TakeThemed ==
    /\ pc = "themed"
    /\ problems' = ThemedStep(problems, themes, review_mode, ReviewCount, ops_style)
    /\ pc' = "generic"
    /\ UNCHANGED <<args, session, logger, items, level_stats, overall_0_1, summary, themes, report>>

\* lines 499-504: one pass of the while loop
BackfillPass ==
    /\ pc = "generic"
    /\ Len(problems) < ReviewCount
    /\ problems' = GenericPass(problems, summary.recommended_practice_level,
                               ReviewCount, ops_style)
    /\ UNCHANGED <<args, session, logger, pc, items, level_stats, overall_0_1, summary, themes, report>>

\* lines 506-514 and 368-385: the loop is left, the list is deduplicated and
\* trimmed, and the report is returned
Return ==
    /\ pc = "generic"
    /\ Len(problems) >= ReviewCount
    /\ report' = [username |-> username,
                  summary |-> summary,
                  metrics |-> [overall |-> [weighted_score_0_1 |-> Round3(overall_0_1),
                                            items |-> Len(items)],
                               levels |-> level_stats],
                  themes |-> themes,
                  review_problems |-> Finish(problems, ReviewCount)]
    /\ pc' = "done"
    /\ UNCHANGED <<args, session, logger, items, level_stats, overall_0_1, summary, themes, problems>>

Next ==
    \/ Ingest
    \/ Raise
    \/ ReturnNoItems
    \/ Rate
    \/ TakeMistakes
    \/ TakeSlow
    \/ TakeThemed
    \/ BackfillPass
    \/ Return

Spec == Init /\ [][Next]_vars

\* ------------------------------------------------------------ several calls
\* A process that calls rate_session several times in a row, with arguments
\* of its choice, and whose other code draws from the random module between
\* the calls. One finished call is remembered, to be compared with a later one.
SessionLogs ==
    {<<>>, <<Extras[2]>>, <<Catalogue[1]>>, <<Catalogue[2]>>,
     <<Extras[1]>>, <<Extras[9], Catalogue[1]>>, <<Catalogue[1], Extras[1]>>}

SessionInit ==
    /\ log_items \in SessionLogs
    /\ username = "ana"
    /\ now \in CallDays
    /\ ops_style \in {"ascii", "unicode"}
    /\ review_mode \in {"mistakes", "themes", "mixed"}
    /\ pc = "start"
    /\ items = <<>>
    /\ level_stats = <<>>
    /\ overall_0_1 = None
    /\ summary = None
    /\ themes = None
    /\ problems = <<>>
    /\ report = None
    /\ entropy = 0
    /\ ncalls = 1
    /\ earlier = None
    /\ LoggerIdle

\* the call is over (returned or raised) and the caller makes the next one;
\* every local of the finished call is gone
NextCall ==
    /\ pc \in {"done", "raised"}
    /\ ncalls < MaxCalls
    /\ ncalls' = ncalls + 1
    /\ earlier' \in {earlier} \cup
                    (IF pc = "done"
                     THEN {<<[args |-> args, report |-> report, n |-> ncalls]>>}
                     ELSE {})
    /\ log_items' \in SessionLogs
    /\ ops_style' \in {"ascii", "unicode"}
    /\ review_mode' \in {"mistakes", "themes", "mixed"}
    /\ pc' = "start"
    /\ items' = <<>>
    /\ level_stats' = <<>>
    /\ overall_0_1' = None
    /\ summary' = None
    /\ themes' = None
    /\ problems' = <<>>
    /\ report' = None
    /\ UNCHANGED <<username, now, entropy, logger>>

\* other code of the process draws from the random module between two calls
UseRandom ==
    /\ pc \in {"done", "raised"}
    /\ entropy' = (entropy + 1) % 2
    /\ UNCHANGED <<args, ncalls, earlier, logger, pc, items, level_stats, overall_0_1,
                   summary, themes, problems, report>>

SessionNext ==
    \/ Next
    \/ NextCall
    \/ UseRandom

SessionSpec == SessionInit /\ [][SessionNext]_vars

\* ------------------------------------------------------------ the logger
\* The threads of the server share one MathProblemLogger. Every public method
\* runs inside "with self.lock"; the lock is a threading.Lock, which does not
\* let the thread that holds it acquire it again. A method whose body has no
\* call that blocks is one step, taken when the lock is free.
call == <<pc, items, level_stats, overall_0_1, summary, themes, problems, report>>

Threads == 1..MaxThreads
LoggerUsers == {"ana"}

\* line 58: username and timestamp, the separators of the timestamp rewritten
generate_problem_id(user, timestamp) == <<user, timestamp>>

\* an id no call to log_problem_generated has returned
NeverGenerated == <<"zed", 0>>

PendingIds == {pending[i].problem_id : i \in 1..Len(pending)}
IssuedIds == {issued[i] : i \in 1..Len(issued)}

\* self.pending_problems[problem_id]
PendingEntry(id) == pending[CHOOSE i \in 1..Len(pending) : pending[i].problem_id = id]

\* self.pending_problems[problem_id] = entry: a key that is present keeps its
\* place
PutPending(entry) ==
    IF entry.problem_id \in PendingIds
    THEN [i \in 1..Len(pending) |->
             IF pending[i].problem_id = entry.problem_id THEN entry ELSE pending[i]]
    ELSE Append(pending, entry)

\* del self.pending_problems[problem_id]
DelPending(id) == SelectSeq(pending, LAMBDA e : e.problem_id # id)

\* f"skipped_{reason}"
SkippedFor(reason) == <<"skipped", IF reason = "timeout" THEN "_timeout" ELSE "_user_skipped">>

\* the clock advances
Tick ==
    /\ clock < MaxClock
    /\ clock' = clock + 1
    /\ UNCHANGED <<pending, written, lock, issued, result, to_remove, inner>>
    /\ UNCHANGED <<args, session, call>>

\* lines 68-94
log_problem_generated ==
    \E t \in Threads, user \in LoggerUsers, correct_answer \in {7, 8} :
        /\ lock = None
        /\ Len(issued) < MaxGenerated
        /\ LET problem_id == generate_problem_id(user, clock)
               entry == [username |-> user,
                         problem_id |-> problem_id,
                         correct_answer |-> correct_answer,
                         user_answer |-> None,
                         time_elapsed |-> None,
                         is_correct |-> None,
                         status |-> <<"generated">>,
                         timestamp |-> clock]
           IN  /\ pending' = PutPending(entry)
               /\ issued' = Append(issued, problem_id)
               /\ result' = [op |-> "generated", id |-> problem_id,
                             ret |-> problem_id]
        /\ UNCHANGED <<written, lock, clock, to_remove, inner>>
        /\ UNCHANGED <<args, session, call>>

\* lines 96-115
log_problem_answered ==
    \E t \in Threads, problem_id \in IssuedIds \cup {NeverGenerated}, user_answer \in {7} :
        /\ lock = None
        /\ IF problem_id \notin PendingIds
           THEN /\ result' = [op |-> "answered", id |-> problem_id, ret |-> FALSE]
                /\ UNCHANGED <<pending, written>>
           ELSE LET old == PendingEntry(problem_id)
                    entry == [old EXCEPT
                                 !.user_answer = <<user_answer>>,
                                 !.time_elapsed = Rat(2, 1),
                                 !.is_correct = <<user_answer = old.correct_answer>>,
                                 !.status = <<"answered">>]
                IN  /\ written' = Append(written, entry)
                    /\ pending' = DelPending(problem_id)
                    /\ result' = [op |-> "answered", id |-> problem_id,
                                  ret |-> TRUE]
        /\ UNCHANGED <<lock, clock, issued, to_remove, inner>>
        /\ UNCHANGED <<args, session, call>>

\* who calls log_problem_skipped with what: the cleanup in progress for the
\* head of its list (line 164), any other thread for any id
SkipCalls ==
    IF inner
    THEN {<<lock[1], Head(to_remove), "timeout">>}
    ELSE Threads \X (IssuedIds \cup {NeverGenerated}) \X {"user_skipped"}

\* lines 117-132
log_problem_skipped ==
    \E c \in SkipCalls :
        /\ lock = None
        /\ IF c[2] \notin PendingIds
           THEN /\ result' = [op |-> "skipped", id |-> c[2], ret |-> FALSE]
                /\ UNCHANGED <<pending, written>>
           ELSE LET entry == [PendingEntry(c[2]) EXCEPT !.status = SkippedFor(c[3])]
                IN  /\ written' = Append(written, entry)
                    /\ pending' = DelPending(c[2])
                    /\ result' = [op |-> "skipped", id |-> c[2], ret |-> TRUE]
        /\ inner' = FALSE
        /\ to_remove' = IF inner THEN Tail(to_remove) ELSE to_remove
        /\ UNCHANGED <<lock, clock, issued>>
        /\ UNCHANGED <<args, session, call>>

\* lines 152-161: the lock is taken and the old entries are listed
cleanup_scan ==
    \E t \in Threads, max_age_minutes \in {1} :
        /\ lock = None
        /\ lock' = <<t>>
        /\ to_remove' = SeqMap(SelectSeq(pending,
                                         LAMBDA e : clock - e.timestamp > max_age_minutes),
                               LAMBDA e : e.problem_id)
        /\ result' = [op |-> "cleanup_scan", id |-> None,
                      ret |-> [max_age_minutes |-> max_age_minutes, at |-> clock]]
        /\ UNCHANGED <<pending, written, clock, issued, inner>>
        /\ UNCHANGED <<args, session, call>>

\* lines 163-164: log_problem_skipped is called for the next old entry while
\* the lock is held
cleanup_call_skipped ==
    /\ lock # None
    /\ ~inner
    /\ to_remove # <<>>
    /\ inner' = TRUE
    /\ UNCHANGED <<pending, written, lock, clock, issued, result, to_remove>>
    /\ UNCHANGED <<args, session, call>>

\* the loop of line 163 is over: the with block is left and the lock released
cleanup_return ==
    /\ lock # None
    /\ ~inner
    /\ to_remove = <<>>
    /\ lock' = None
    /\ result' = [op |-> "cleanup", id |-> None, ret |-> result.ret]
    /\ UNCHANGED <<pending, written, clock, issued, to_remove, inner>>
    /\ UNCHANGED <<args, session, call>>

LoggerInit ==
    /\ LoggerIdle
    /\ log_items = <<>>
    /\ username = "ana"
    /\ now = 14
    /\ ops_style = "ascii"
    /\ review_mode = "mixed"
    /\ pc = "start"
    /\ items = <<>>
    /\ level_stats = <<>>
    /\ overall_0_1 = None
    /\ summary = None
    /\ themes = None
    /\ problems = <<>>
    /\ report = None
    /\ entropy = 0
    /\ ncalls = 1
    /\ earlier = None

LoggerNext ==
    \/ Tick
    \/ log_problem_generated
    \/ log_problem_answered
    \/ log_problem_skipped
    \/ cleanup_scan
    \/ cleanup_call_skipped
    \/ cleanup_return

LoggerSpec == LoggerInit /\ [][LoggerNext]_vars

\* ------------------------------------------------------------ recency weights
\* Calls on logs of two records that differ in their timestamps only, at
\* several days: the steps that parse the timestamps and weigh the items.
StampDays == {RECENCY_HALF_LIFE_DAYS * k : k \in 0..MaxStamp}
NowDays == {RECENCY_HALF_LIFE_DAYS * k : k \in 0..MaxNow}

Stamped(day) == [Catalogue[2] EXCEPT !.timestamp = Iso(day)]

WeightInit ==
    /\ log_items \in {<<Stamped(a), Stamped(b)>> : a, b \in StampDays}
    /\ username = "ana"
    /\ now \in NowDays
    /\ ops_style = "ascii"
    /\ review_mode = "mixed"
    /\ pc = "start"
    /\ items = <<>>
    /\ level_stats = <<>>
    /\ overall_0_1 = None
    /\ summary = None
    /\ themes = None
    /\ problems = <<>>
    /\ report = None
    /\ entropy = 0
    /\ ncalls = 1
    /\ earlier = None
    /\ LoggerIdle

WeightNext ==
    \/ Ingest
    \/ Rate

WeightSpec == WeightInit /\ [][WeightNext]_vars

\* ------------------------------------------------------------ progress
\* Calls on logs long enough for a trend: a late right answer in 2.0 s, a
\* wrong answer in 2.8 s without timestamp, an early right answer in 0.0 s and
\* an item skipped on the day of the call.
ProgressRecords ==
    { Rec(Bin(6, "+", 7), Answered, TRUE, 2, <<13>>, Rat(20, 10), Iso(28)),
      Rec(Bin(6, "+", 7), Answered, FALSE, 2, <<12>>, Rat(28, 10), None),
      Rec(Bin(6, "+", 7), Answered, TRUE, 2, <<13>>, Rat(0, 1), Iso(0)),
      Rec(Bin(6, "+", 7), SkippedTimeout, FALSE, 2, None, None, Iso(14)) }

ProgressLogs == UNION {[1..k -> ProgressRecords] : k \in (MaxProgress - 1)..MaxProgress}

ProgressInit ==
    /\ log_items \in ProgressLogs
    /\ username = "ana"
    /\ now \in CallDays
    /\ ops_style = "ascii"
    /\ review_mode = "mixed"
    /\ pc = "start"
    /\ items = <<>>
    /\ level_stats = <<>>
    /\ overall_0_1 = None
    /\ summary = None
    /\ themes = None
    /\ problems = <<>>
    /\ report = None
    /\ entropy = 0
    /\ ncalls = 1
    /\ earlier = None
    /\ LoggerIdle

ProgressNext ==
    \/ Ingest
    \/ Rate

ProgressSpec == ProgressInit /\ [][ProgressNext]_vars

\* ------------------------------------------------------------ facts
\* Calls on one wrong answer to a fact a op b.
Facts ==
    {Bin(a, op, b) : a \in 0..MaxOperand, b \in 0..MaxOperand,
                     op \in {Times, Obelus, "+", "-"}}

WrongFact(expr) == Rec(expr, Answered, FALSE, 7, <<99>>, Rat(40, 10), Iso(14))

FactInit ==
    /\ log_items \in {<<WrongFact(expr)>> : expr \in Facts}
    /\ username = "ana"
    /\ now \in CallDays
    /\ ops_style = "ascii"
    /\ review_mode = "mistakes"
    /\ pc = "start"
    /\ items = <<>>
    /\ level_stats = <<>>
    /\ overall_0_1 = None
    /\ summary = None
    /\ themes = None
    /\ problems = <<>>
    /\ report = None
    /\ entropy = 0
    /\ ncalls = 1
    /\ earlier = None
    /\ LoggerIdle

FactNext ==
    \/ Ingest
    \/ Rate
    \/ TakeMistakes

FactSpec == FactInit /\ [][FactNext]_vars

\* ------------------------------------------------------------ scores
\* Calls on right, wrong, skipped and generated items, fast and slow, among
\* them a right answer whose timestamp lies 1075 half-lives (41 years) before
\* the call.
Ancient == Iso(14 - 1075 * RECENCY_HALF_LIFE_DAYS)

ScoreRecords ==
    { Rec(Bin(6, "+", 7), Answered, TRUE, 2, <<13>>, Rat(10, 10), Iso(14)),
      Rec(Bin(6, "+", 7), Answered, TRUE, 2, <<13>>, Rat(990, 10), Iso(0)),
      Rec(Bin(6, "+", 7), Answered, FALSE, 2, <<12>>, Rat(10, 10), Iso(14)),
      Rec(Bin(9, Times, 0), Answered, FALSE, 5, <<9>>, Rat(10, 10), None),
      Rec(Bin(12, "-", 5), SkippedTimeout, TRUE, 3, None, None, Iso(14)),
      Rec(Bin(48, Obelus, 6), Generated, TRUE, 6, None, Rat(10, 10), Iso(14)),
      Rec(Bin(8, Times, 6), Answered, TRUE, 5, None, None, Iso(14)),
      Rec(Bin(56, Obelus, 4), Answered, TRUE, 8, <<14>>, Rat(50, 10), Ancient) }

ScoreInit ==
    /\ log_items \in UNION {[1..k -> ScoreRecords] : k \in 1..MaxScore}
    /\ username = "ana"
    /\ now \in CallDays
    /\ ops_style = "ascii"
    /\ review_mode = "mixed"
    /\ pc = "start"
    /\ items = <<>>
    /\ level_stats = <<>>
    /\ overall_0_1 = None
    /\ summary = None
    /\ themes = None
    /\ problems = <<>>
    /\ report = None
    /\ entropy = 0
    /\ ncalls = 1
    /\ earlier = None
    /\ LoggerIdle

ScoreNext ==
    \/ Ingest
    \/ Rate

ScoreSpec == ScoreInit /\ [][ScoreNext]_vars

\* ------------------------------------------------------------ statements
\* Calls on logs of one record whose problem statement is any short text over
\* a small alphabet, or one of a few longer examples: the step that
\* normalizes the statements.
ExprAlphabet == {"3", "*", "=", "?", " "}

ExprExamples ==
    { <<"3", "*", "4", "=", "?">>,
      <<"3", " ", Times, " ", "4">>,
      <<"3", "*", "4", " ", "=", " ", "?", " ", "=">>,
      <<"(", "2", "+", "3", ")", "*", "4", "=">>,
      <<"\t", "8", " ", "/", "\t", "2", " ", "=", "?", "=", "?">>,
      <<"7", "-", "0", "=", "=", "=">> }

Exprs == SeqsUpTo(ExprAlphabet, MaxExpr) \cup ExprExamples

Stated(expr) == [Catalogue[2] EXCEPT !.problem_statement = expr]

ExprInit ==
    /\ log_items \in {<<Stated(e)>> : e \in Exprs}
    /\ username = "ana"
    /\ now \in CallDays
    /\ ops_style = "ascii"
    /\ review_mode = "mixed"
    /\ pc = "start"
    /\ items = <<>>
    /\ level_stats = <<>>
    /\ overall_0_1 = None
    /\ summary = None
    /\ themes = None
    /\ problems = <<>>
    /\ report = None
    /\ entropy = 0
    /\ ncalls = 1
    /\ earlier = None
    /\ LoggerIdle

ExprNext == Ingest

ExprSpec == ExprInit /\ [][ExprNext]_vars

\* ------------------------------------------------------------ properties
Returned == pc = "done" /\ items # <<>>

OriginsOf(list) == {list[i].origin : i \in 1..Len(list)}

NoRepeatedPair(list) ==
    \A i, j \in 1..Len(list) :
        (list[i].problem_statement = list[j].problem_statement
            /\ list[i].level = list[j].level) => i = j

\* C1: whenever _make_review_problems returns (for every log, theme counters,
\* practice level and review_mode), the returned list has exactly n = 6 entries.
C1_ExactlySix == Returned => Len(report.review_problems) = ReviewCount

\* a call that returned six problems of which some are replays and some filler
C1_Witness ==
    /\ Returned
    /\ Len(report.review_problems) = ReviewCount
    /\ {"mistake", "generic"} \subseteq OriginsOf(report.review_problems)

\* C2: the list of review problems never holds two entries with the same
\* (problem_statement, level) and never more than n entries: the list under
\* construction after every step, and the list that is returned.
C2_NoRepeatAtMostSix ==
    /\ NoRepeatedPair(problems)
    /\ Len(problems) <= ReviewCount
    /\ pc = "done" =>
        /\ NoRepeatedPair(report.review_problems)
        /\ Len(report.review_problems) <= ReviewCount

\* a returned list that holds one statement at two levels, after a replayed
\* mistake met the curated problem of the same statement
C2_Witness ==
    /\ Returned
    /\ \E i, j \in 1..Len(report.review_problems) :
          /\ report.review_problems[i].problem_statement
               = report.review_problems[j].problem_statement
          /\ report.review_problems[i].level # report.review_problems[j].level
    /\ \E i \in 1..Len(report.review_problems) : \E k \in 1..Len(Themed(themes)) :
          /\ report.review_problems[i].origin = "mistake"
          /\ report.review_problems[i].problem_statement
               = render_expr(Themed(themes)[k][1], ops_style)

\* C3: the backfill loop ends: as the candidates of a level are the same on
\* every pass, it ends exactly if every pass that starts short of n adds a problem.
C3_BackfillAdvances ==
    (pc = "generic" /\ Len(problems) < ReviewCount) =>
        Len(GenericPass(problems, summary.recommended_practice_level,
                        ReviewCount, ops_style)) > Len(problems)

Rated == pc \notin {"start", "rate"} /\ items # <<>>

\* The items are built once and the scores and level statistics are computed
\* once: what depends on them alone is examined in the state that follows.
Ingested == pc = "rate"
JustRated == pc = "mistakes"

InUnit(x) == RLe(RZero, x) /\ RLe(x, ROne)

ItemsAt(lv) == SelectSeq(items, LAMBDA it : it.level = lv)

\* C4: every score is in [0, 1]: the score of every item, the weighted mastery
\* score of every level (before and after rounding) and the overall weighted
\* score (so that overall_score is in [0, 100]).
C4_ScoresInUnit ==
    /\ Ingested => \A i \in 1..Len(items) : InUnit(item_score(items[i]))
    /\ JustRated =>
        /\ \A lv \in DOMAIN level_stats :
              /\ InUnit(WeightedScore(ItemsAt(lv), now))
              /\ InUnit(level_stats[lv].score_0_1)
        /\ InUnit(overall_0_1)
        /\ RLe(RZero, summary.overall_score) /\ RLe(summary.overall_score, Rat(100, 1))
    /\ Returned => InUnit(report.metrics.overall.weighted_score_0_1)

\* a level rated from items of different weight, its score strictly inside (0, 1)
C4_Witness ==
    /\ Rated
    /\ \E lv \in DOMAIN level_stats :
          /\ \E i, j \in 1..Len(items) :
                /\ items[i].level = lv /\ items[j].level = lv
                /\ recency_weight(items[i].timestamp, now)
                     # recency_weight(items[j].timestamp, now)
          /\ RLt(RZero, level_stats[lv].score_0_1)
          /\ RLt(level_stats[lv].score_0_1, ROne)

\* the reference score of C5
NearestConfigured(level) == IF level < 1 THEN 1 ELSE IF level > 10 THEN 10 ELSE level

ClaimedRaw(elapsed, target) ==
    IF RLe(elapsed, RMul(Rat(6, 10), target))
    THEN RMin(Rat(105, 100),
              RAdd(ROne, RDiv(RSub(target, elapsed), RMul(Rat(4, 1), target))))
    ELSE RDiv(ROne, RAdd(ROne, RMax(RZero, RSub(RDiv(elapsed, target), ROne))))

ClaimedScore(item, untimed) ==
    LET target == EXPECTED_TIME_BY_LEVEL[NearestConfigured(item.level)]
        speed == IF untimed THEN Rat(25, 100)
                 ELSE Clamp01(ClaimedRaw(item.time_elapsed, target))
        c == IF item.correct THEN ROne ELSE RZero
        m == IF ~item.correct /\ looks_like_identity(item.problem_statement)
             THEN Rat(75, 100) ELSE ROne
    IN  IF StartsWithSkipped(item.status) THEN Rat(15, 100)
        ELSE Clamp01(RMul(RAdd(RMul(Rat(7, 10), c), RMul(Rat(3, 10), speed)), m))

NoTime(item) == item.time_elapsed = None \/ item.user_answer = None

\* C5 as claimed: item_score is the reference score, with speed 0.25 only when
\* time_elapsed or user_answer is null, an elapsed time of 0 included.
C5_AsClaimed ==
    Ingested => \A i \in 1..Len(items) : item_score(items[i]) = ClaimedScore(items[i], NoTime(items[i]))

\* C5, amended: item_score is the reference score, with speed 0.25 when
\* time_elapsed or user_answer is null and also when the elapsed time is not
\* positive; for every positive elapsed time the speed is the clamped raw value.
C5_ZeroElapsedIsUntimed ==
    Ingested => \A i \in 1..Len(items) :
        item_score(items[i]) =
            ClaimedScore(items[i],
                         NoTime(items[i]) \/ RLe(items[i].time_elapsed, RZero))

\* an answered item with an answer and an elapsed time of 0 has been scored
C5_Witness ==
    Ingested /\ \E i \in 1..Len(items) :
        /\ items[i].status = Answered
        /\ items[i].user_answer # None
        /\ items[i].time_elapsed = RZero
        /\ items[i].correct
        /\ item_score(items[i]) = Rat(775, 1000)

AnsweredAt(lv) == CountIf(items, LAMBDA it : it.level = lv /\ it.status = Answered)

Qualifying ==
    {lv \in LevelsOf(items) :
        RLe(Rat(70, 100), level_stats[lv].score_0_1) /\ AnsweredAt(lv) >= 2}

FiveAtTargetOnLevel3 ==
    /\ Len(items) = 5
    /\ \A i \in 1..Len(items) :
          /\ items[i].level = 3
          /\ items[i].status = Answered
          /\ items[i].correct
          /\ items[i].time_elapsed = EXPECTED_TIME_BY_LEVEL[3]

DropAt(ls, i) == RSub(level_stats[ls[i]].score_0_1, level_stats[ls[i + 1]].score_0_1)

\* C7: the recommended level is the higher level of the adjacent pair of the
\* largest drop (the lowest such pair) if that drop exceeds 0.1, whatever the
\* other drops are, and min(highest level present, estimated_level + 1) if not.
C7_RecommendedLevel ==
    Rated =>
        LET ls == SortedSeq(LevelsOf(items))
            pairs == 1..(Len(ls) - 1)
            rec == summary.recommended_practice_level
            est == summary.estimated_level
        IN  IF \E i \in pairs : RLt(Rat(1, 10), DropAt(ls, i))
            THEN \E i \in pairs :
                    /\ \A j \in pairs : RLe(DropAt(ls, j), DropAt(ls, i))
                    /\ \A j \in pairs : j < i => RLt(DropAt(ls, j), DropAt(ls, i))
                    /\ rec = ls[i + 1]
            ELSE rec = IF ls[Len(ls)] < est + 1 THEN ls[Len(ls)] ELSE est + 1

\* two pairs drop by more than 0.1 and the later, larger one is recommended
C7_Witness ==
    /\ Rated
    /\ LET ls == SortedSeq(LevelsOf(items))
       IN  /\ Len(ls) >= 3
           /\ RLt(Rat(1, 10), DropAt(ls, 1))
           /\ RLt(DropAt(ls, 1), DropAt(ls, 2))
           /\ summary.recommended_practice_level = ls[3]

WrongKeys == {<<items[i].problem_statement, items[i].level>> :
                i \in {k \in 1..Len(items) : IsWrong(items[k])}}

\* the newest timestamp among the wrong items of a (statement, level)
NewestOf(key) ==
    LET days == {items[i].timestamp[1] :
                    i \in {k \in 1..Len(items) :
                            /\ IsWrong(items[k])
                            /\ <<items[k].problem_statement, items[k].level>> = key
                            /\ items[k].timestamp # None}}
    IN  IF days = {} THEN None ELSE <<SetMax(days)>>

\* timestamp a is not newer than b, null being the oldest
NotNewer(a, b) == a = None \/ (b # None /\ a[1] <= b[1])

\* C8: the mistake pool holds every wrong (statement, level) once, newest
\* first, the entries without a timestamp after all that have one.
C8_NewestFirstNullLast ==
    LET pool == collect_mistakes(items)
        key(i) == <<pool[i][1], pool[i][2]>>
    IN  /\ {key(i) : i \in 1..Len(pool)} = WrongKeys
        /\ \A i, j \in 1..Len(pool) : i < j =>
              /\ key(i) # key(j)
              /\ NotNewer(NewestOf(key(j)), NewestOf(key(i)))

OriginRank(origin) ==
    CASE origin = "mistake" -> 1
      [] origin = "slow" -> 2
      [] origin = "theme" -> 3
      [] origin = "generic" -> 4

CountOrigin(list, origins) ==
    Cardinality({i \in 1..Len(list) : list[i].origin \in origins})

\* the entry is what its origin says: a replayed pool entry, a curated themed
\* problem or a generic problem of the recommended level
FromOrigin(p) ==
    LET made(pool) == \E k \in 1..Len(pool) :
                         Problem(pool[k], ops_style, p.origin) = p
    IN  CASE p.origin = "mistake" -> made(collect_mistakes(items))
          [] p.origin = "slow" -> made(collect_slow(items))
          [] p.origin = "theme" -> made(Themed(themes))
          [] p.origin = "generic" ->
                made(generic_by_level(summary.recommended_practice_level))

Precedence(list) ==
    /\ \A i \in 1..Len(list) : FromOrigin(list[i])
    /\ \A i, j \in 1..Len(list) :
          i < j => OriginRank(list[i].origin) <= OriginRank(list[j].origin)
    /\ review_mode = "mixed" => CountOrigin(list, {"mistake", "slow"}) <= 3
    /\ review_mode = "mistakes" =>
          /\ CountOrigin(list, {"mistake", "slow"}) <= ReviewCount
          /\ CountOrigin(list, {"theme"}) = 0
    /\ review_mode = "themes" => CountOrigin(list, {"mistake", "slow"}) = 0
    /\ CountOrigin(list, {"slow"}) > 0 =>
          Len(collect_mistakes(items)) < (IF review_mode = "mistakes" THEN ReviewCount ELSE 3)

\* C9: the list is filled in the order mistakes, slow divisions, themed,
\* generic: replayed items (mistakes and slow divisions together) number at most
\* 3 in "mixed" mode and at most n in "mistakes" mode, slow divisions are used
\* only when the mistakes did not fill that quota, "themes" mode replays
\* nothing, "mistakes" mode has no themed problem, and generic problems come
\* last.
C9_SourcePrecedence ==
    /\ Precedence(problems)
    /\ Returned => Precedence(report.review_problems)

\* "mixed" mode: three mistakes fill the quota, so that a slow division that
\* is waiting is not replayed, and themed problems follow
C9_Witness ==
    /\ Returned
    /\ review_mode = "mixed"
    /\ CountOrigin(report.review_problems, {"mistake"}) = 3
    /\ \E k \in 1..Len(collect_slow(items)) :
          ~HasStatement(report.review_problems, collect_slow(items)[k], ops_style)
    /\ CountOrigin(report.review_problems, {"slow"}) = 0
    /\ CountOrigin(report.review_problems, {"theme"}) > 0

\* wrong item a is strictly newer than wrong item b, null being the oldest
Newer(a, b) ==
    /\ a.timestamp # None
    /\ b.timestamp = None \/ a.timestamp[1] > b.timestamp[1]

OneWrongNineTimesZero ==
    /\ Len(items) = 1
    /\ items[1].problem_statement = <<"9", " ", Times, " ", "0">>
    /\ IsWrong(items[1])
    /\ items[1].level = 5
    /\ items[1].time_elapsed = Rat(3, 1)
    /\ items[1].timestamp # None
    /\ review_mode = "mixed"
    /\ ops_style = "ascii"

\* C10: in "mixed" mode with a wrong item in the log, the first review problem
\* is the replay of a newest wrong item, with its statement, level and hint; a
\* log of one wrong "9 x 0" at level 5 gives identity_errors = 1, level 5 with
\* attempted = 1 and correct = 0, and the first review problem "9 * 0", level
\* 5, hint "Zero wipes, one keeps.".
C10_FirstIsNewestMistake ==
    /\ (Returned /\ review_mode = "mixed" /\ \E i \in 1..Len(items) : IsWrong(items[i])) =>
          \E i \in 1..Len(items) :
              /\ IsWrong(items[i])
              /\ \A j \in 1..Len(items) : IsWrong(items[j]) => ~Newer(items[j], items[i])
              /\ report.review_problems[1] = Problem(PoolEntry(items[i]), ops_style, "mistake")
    /\ (Returned /\ OneWrongNineTimesZero) =>
          /\ report.themes.identity_errors = 1
          /\ report.metrics.levels[5].attempted = 1
          /\ report.metrics.levels[5].correct = 0
          /\ report.review_problems[1].problem_statement = <<"9", " ", "*", " ", "0">>
          /\ report.review_problems[1].level = 5
          /\ report.review_problems[1].hint = Hint("Zero wipes, one keeps.")

\* the positions of the user's records in the log
UserRecords == {i \in 1..Len(log_items) : log_items[i].username = username}

\* C11: when no record of the log carries the username (an empty log
\* included), the call raises nothing, scores, aggregates and selects nothing,
\* and returns exactly {username, summary: {message: "No items found for
\* user."}, metrics: {}, review_problems: []}, without a themes key.
C11_NoItemsShortCircuit ==
    UserRecords = {} =>
        /\ pc \in {"start", "done"}
        /\ items = <<>> /\ level_stats = <<>> /\ overall_0_1 = None
        /\ summary = None /\ themes = None /\ problems = <<>>
        /\ pc = "done" =>
              /\ DOMAIN report = {"username", "summary", "metrics", "review_problems"}
              /\ report.username = username
              /\ report.summary = [message |-> "No items found for user."]
              /\ report.metrics = <<>>
              /\ report.review_problems = <<>>

\* a log that holds records, all of another user, has been answered
C11_Witness ==
    /\ pc = "done"
    /\ log_items # <<>>
    /\ UserRecords = {}
    /\ report.summary = [message |-> "No items found for user."]

\* the user's records, in log order
UserLog == SelectSeq(log_items, LAMBDA d : d.username = username)

NoReadableTime(d) == d.time_elapsed = None \/ FloatRaises(d.time_elapsed)
NoReadableTimestamp(d) == d.timestamp = None \/ d.timestamp[1] # "iso"

\* C12: no record of the user makes the call raise or is dropped: a missing,
\* null or non-numeric time_elapsed becomes null and is scored with speed 0.25,
\* a missing or unreadable timestamp becomes null and weighs exactly 1.0, and
\* every record of the user counts in metrics.overall.items.
C12_MalformedFieldsDegrade ==
    /\ pc # "raised"
    /\ Ingested =>
          /\ Len(items) = Len(UserLog)
          /\ \A k \in 1..Len(items) :
                /\ NoReadableTime(UserLog[k]) =>
                      /\ items[k].time_elapsed = None
                      /\ speed_score(items[k].time_elapsed, items[k].level) = Rat(25, 100)
                /\ NoReadableTimestamp(UserLog[k]) =>
                      /\ items[k].timestamp = None
                      /\ recency_weight(items[k].timestamp, now) = ROne
    /\ Returned => report.metrics.overall.items = Len(UserLog)

AnsweredItems == SelectSeq(items, LAMBDA it : it.status = Answered)

AnsweredRecordsAt(lv) ==
    {k \in 1..Len(UserLog) : UserLog[k].level = lv /\ UserLog[k].status = Answered}

ErrorThemes == {"identity_errors", "parentheses_errors", "division_errors",
                "subtraction_slips", "multiplication_hardfacts"}

\* C13: an ItemEval is correct = false whenever the status of its record is
\* not exactly "answered", whatever is_correct says; such a record is counted
\* in no level's attempted or correct count, is no entry of the mistake pool
\* and raises no error theme counter.
C13_UnansweredNeverCorrect ==
    /\ Ingested =>
          \A k \in 1..Len(items) : UserLog[k].status # Answered => ~items[k].correct
    /\ JustRated =>
          /\ \A lv \in DOMAIN level_stats :
                /\ level_stats[lv].attempted = Cardinality(AnsweredRecordsAt(lv))
                /\ level_stats[lv].correct =
                      Cardinality({k \in AnsweredRecordsAt(lv) : UserLog[k].is_correct})
          /\ LET pool == collect_mistakes(items)
             IN  \A e \in 1..Len(pool) :
                    \E k \in 1..Len(UserLog) :
                        /\ UserLog[k].status = Answered
                        /\ ~UserLog[k].is_correct
                        /\ normalize_expr(UserLog[k].problem_statement) = pool[e][1]
                        /\ UserLog[k].level = pool[e][2]
          /\ \A c \in ErrorThemes : themes[c] = infer_themes_for_review(AnsweredItems)[c]

\* a record that is not answered but flagged correct has been rated: its level
\* shows no attempt
C13_Witness ==
    /\ JustRated
    /\ \E k \in 1..Len(UserLog) :
          /\ UserLog[k].status # Answered
          /\ UserLog[k].is_correct
          /\ ~items[k].correct
          /\ level_stats[UserLog[k].level].attempted = 0

\* the weight and the age in days of the k-th item
WeightOf(k) == Weights(items, now)[k]
AgeOf(k) == now - items[k].timestamp[1]

\* C14: the recency weight of every parsed timestamp is greater than 0 and at
\* most 1, timestamps that lie after now included.
C14_WeightInUnitInterval ==
    Ingested =>
        \A k \in 1..Len(items) :
            items[k].timestamp # None =>
                RLt(RZero, WeightOf(k)) /\ RLe(WeightOf(k), ROne)

C16_NormalizeIdempotent ==
    Ingested =>
        \A k \in 1..Len(items) :
            /\ normalize_expr(items[k].problem_statement) = items[k].problem_statement
            /\ UserLog[k].problem_statement = <<"3", "*", "4", "=", "?">> =>
                  items[k].problem_statement = normalize_expr(<<"3", " ", Times, " ", "4">>)

\* C17: a canonical statement rendered in "ascii" and normalized again is
\* itself, and rendered in "unicode" it is itself.
C17_RenderRoundTrip ==
    Ingested =>
        \A k \in 1..Len(items) :
            LET c == items[k].problem_statement
            IN  /\ normalize_expr(render_expr(c, "ascii")) = c
                /\ render_expr(c, "unicode") = c

HasParens(e) == Contains(e, "(") \/ Contains(e, ")")
IsMultiplication(e) == ~HasParens(e) /\ Contains(e, Times)
IsDivision(e) == ~HasParens(e) /\ ~Contains(e, Times) /\ Contains(e, Obelus)
IsSubtraction(e) ==
    /\ ~HasParens(e) /\ ~Contains(e, Times) /\ ~Contains(e, Obelus)
    /\ Contains(e, "-") /\ ~Contains(e, "+")

\* the number of answered wrong items that satisfy P
WrongCount(P(_)) ==
    Cardinality({k \in 1..Len(items) :
                    items[k].status = Answered /\ ~items[k].correct /\ P(items[k])})

\* C19: the five error counters count the answered wrong items and nothing
\* else, over all items of the user: identity_errors those that match the
\* identity pattern, parentheses_errors those with parentheses,
\* division_errors the divisions, subtraction_slips the subtractions,
\* multiplication_hardfacts the multiplications at level 7 or above.
C19_ErrorThemeCounters ==
    JustRated =>
        /\ themes.identity_errors =
              WrongCount(LAMBDA it : looks_like_identity(it.problem_statement))
        /\ themes.parentheses_errors =
              WrongCount(LAMBDA it : HasParens(it.problem_statement))
        /\ themes.division_errors =
              WrongCount(LAMBDA it : IsDivision(it.problem_statement))
        /\ themes.subtraction_slips =
              WrongCount(LAMBDA it : IsSubtraction(it.problem_statement))
        /\ themes.multiplication_hardfacts =
              WrongCount(LAMBDA it : IsMultiplication(it.problem_statement) /\ it.level >= 7)

\* two wrong identity multiplications, one below level 7 and one at level 7:
\* both are identity errors, one is a hard fact
C19_Witness ==
    /\ JustRated
    /\ themes.identity_errors = 2
    /\ themes.multiplication_hardfacts = 1
    /\ \E k \in 1..Len(items) :
          /\ IsWrong(items[k])
          /\ IsMultiplication(items[k].problem_statement)
          /\ items[k].level < 7

\* the timed divisions of level 6 or 8, whatever their status
TimedDivisions ==
    {k \in 1..Len(items) :
        /\ IsDivision(items[k].problem_statement)
        /\ items[k].time_elapsed # None
        /\ items[k].level \in {6, 8}}

Below(v) == Cardinality({k \in TimedDivisions : RLt(items[k].time_elapsed, v)})
Above(v) == Cardinality({k \in TimedDivisions : RLt(v, items[k].time_elapsed)})

\* the median of the times of the timed divisions, by rank
MedianTime ==
    LET n == Cardinality(TimedDivisions)
        times == {items[k].time_elapsed : k \in TimedDivisions}
        lo == CHOOSE v \in times : Below(v) <= (n - 1) \div 2 /\ Above(v) <= n \div 2
        hi == CHOOSE v \in times : Below(v) <= n \div 2 /\ Above(v) <= (n - 1) \div 2
    IN  RDiv(RAdd(lo, hi), Rat(2, 1))

\* C20: division_slow is 0 or 1, and 1 exactly when the median elapsed time of
\* the user's timed divisions of level 6 or 8, right or wrong, exceeds 4.0
\* seconds; without such an item it is 0.
C20_DivisionSlow ==
    JustRated =>
        /\ themes.division_slow \in {0, 1}
        /\ themes.division_slow = 1 <=>
              (TimedDivisions # {} /\ RLt(Rat(4, 1), MedianTime))

\* the flag is raised by a median over a right answer, an item that was never
\* answered and a fast one
C20_Witness ==
    /\ JustRated
    /\ themes.division_slow = 1
    /\ \E k \in TimedDivisions : items[k].correct
    /\ \E k \in TimedDivisions : items[k].status # Answered
    /\ \E k \in TimedDivisions : RLe(items[k].time_elapsed, Rat(4, 1))

RECURSIVE SumAttempted(_, _)
SumAttempted(stats, S) ==
    IF S = {} THEN 0
    ELSE LET lv == CHOOSE x \in S : TRUE
         IN  stats[lv].attempted + SumAttempted(stats, S \ {lv})

\* the counts of one level of the report: attempted is the number of answered
\* items of the level, correct the number of those that are correct
LevelCounts(lv) ==
    LET st == report.metrics.levels[lv]
        at == {k \in 1..Len(items) : items[k].level = lv}
        answered == {k \in at : items[k].status = Answered}
    IN  /\ st.attempted = Cardinality(answered)
        /\ st.correct = Cardinality({k \in answered : items[k].correct})
        /\ 0 <= st.correct /\ st.correct <= st.attempted
        /\ st.attempted <= Cardinality(at)
        /\ st.accuracy = None <=> st.attempted = 0

\* the levels of the report are the levels of the items, and the attempts of
\* all levels together are no more than the items
LevelTotals ==
    /\ DOMAIN report.metrics.levels = LevelsOf(items)
    /\ SumAttempted(report.metrics.levels, LevelsOf(items)) <= report.metrics.overall.items

\* x is q to three decimals: a whole number of thousandths, at most half a
\* thousandth from q
ToThreeDecimals(x, q) ==
    /\ (x[1] * 1000) % x[2] = 0
    /\ RLe(RSub(x, q), Rat(1, 2000))
    /\ RLe(RSub(q, x), Rat(1, 2000))

\* C21 as stated: per level, attempted counts the answered items, correct the
\* correct ones among them, accuracy is null exactly without attempts and
\* otherwise correct/attempted, and the attempts sum to at most the items.
C21_AccuracyIsQuotient ==
    Returned =>
        /\ LevelTotals
        /\ \A lv \in LevelsOf(items) :
              /\ LevelCounts(lv)
              /\ report.metrics.levels[lv].attempted > 0 =>
                    report.metrics.levels[lv].accuracy =
                        Rat(report.metrics.levels[lv].correct,
                            report.metrics.levels[lv].attempted)

\* C21 amended: the same, with accuracy being correct/attempted rounded to
\* three decimals.
C21_LevelCounts ==
    Returned =>
        /\ LevelTotals
        /\ \A lv \in LevelsOf(items) :
              /\ LevelCounts(lv)
              /\ report.metrics.levels[lv].attempted > 0 =>
                    ToThreeDecimals(report.metrics.levels[lv].accuracy,
                                    Rat(report.metrics.levels[lv].correct,
                                        report.metrics.levels[lv].attempted))

\* a level with two of three answers right: accuracy 0.667
C21_Witness ==
    /\ Returned
    /\ \E lv \in LevelsOf(items) :
          /\ report.metrics.levels[lv].attempted = 3
          /\ report.metrics.levels[lv].correct = 2
          /\ report.metrics.levels[lv].accuracy = Rat(667, 1000)

NotesSet == {summary.progress_notes[i] : i \in 1..Len(summary.progress_notes)}

AccuracyNoteTexts ==
    {"Accuracy improved as you went.",
     "Accuracy dipped later in the session (fatigue or harder items)."}
SpeedNoteTexts ==
    {"You sped up in the second half.",
     "You slowed down later (possible fatigue or tougher items)."}

\* |x - y| > d
Differ(x, y, d) == RLt(d, RSub(x, y)) \/ RLt(d, RSub(y, x))

AccuracyTriggers ==
    Differ(avg_acc(FirstHalf(items, now)), avg_acc(SecondHalf(items, now)), Rat(5, 100))

SpeedTriggers ==
    LET mt_first == median_time(FirstHalf(items, now))
        mt_second == median_time(SecondHalf(items, now))
    IN  /\ mt_first # None
        /\ mt_second # None
        /\ Differ(mt_first, mt_second, Rat(4, 10))

\* C22: under 6 items the only note is the insufficient-data note; from 6
\* items on there is an accuracy note exactly when the halves' accuracies
\* differ by more than 0.05, a speed note exactly when both halves have a
\* median time and the medians differ by more than 0.4 s, the steady note
\* exactly when neither is the case; there are one or two notes.
C22_ProgressNotes ==
    JustRated =>
        /\ Len(summary.progress_notes) \in {1, 2}
        /\ Len(items) < 6 =>
              summary.progress_notes = <<"Not enough items to assess within-session trend.">>
        /\ Len(items) >= 6 =>
              /\ Cardinality(NotesSet \cap AccuracyNoteTexts) = (IF AccuracyTriggers THEN 1 ELSE 0)
              /\ Cardinality(NotesSet \cap SpeedNoteTexts) = (IF SpeedTriggers THEN 1 ELSE 0)
              /\ "Performance was steady across the session." \in NotesSet
                    <=> ~AccuracyTriggers /\ ~SpeedTriggers
              /\ NotesSet \subseteq AccuracyNoteTexts \cup SpeedNoteTexts
                                    \cup {"Performance was steady across the session."}

\* an identity fact: a product with an operand 0 or 1, a sum or difference
\* whose second operand is 0, a quotient by 1
IdentityFact(e) ==
    LET mul == MatchBinary(e, Times)
        div == MatchBinary(e, Obelus)
        add == MatchBinary(e, "+")
        sub == MatchBinary(e, "-")
    IN  \/ mul # None /\ (mul[1] \in {0, 1} \/ mul[2] \in {0, 1})
        \/ add # None /\ add[2] = 0
        \/ sub # None /\ sub[2] = 0
        \/ div # None /\ div[2] = 1

\* C23: an expression looks like an identity exactly when it is an identity
\* fact with the whole operand 0 or 1; only then is a wrong answer to it
\* counted in identity_errors, scored with the 0.75 multiplier and given the
\* identity hint.
C23_IdentityIsWholeOperand ==
    /\ Ingested =>
          \A k \in 1..Len(items) :
              /\ looks_like_identity(items[k].problem_statement)
                    <=> IdentityFact(items[k].problem_statement)
              /\ ~IdentityFact(items[k].problem_statement) =>
                    item_score(items[k]) =
                        RMul(Rat(3, 10), speed_score(items[k].time_elapsed, items[k].level))
    /\ JustRated =>
          themes.identity_errors =
              WrongCount(LAMBDA it : IdentityFact(it.problem_statement))
    /\ pc = "slow" =>
          \A i \in 1..Len(problems) :
              problems[i].hint = Hint("Zero wipes, one keeps.")
                  => \E k \in 1..Len(items) :
                        /\ render_expr(items[k].problem_statement, ops_style)
                              = problems[i].problem_statement
                        /\ IdentityFact(items[k].problem_statement)

\* the lines of the log that carry a problem id
RecordsOf(id) == {i \in 1..Len(written) : written[i].problem_id = id}

\* a call to log_problem_answered or log_problem_skipped has just returned
Completes ==
    /\ result' # None
    /\ result'.op \in {"answered", "skipped"}
    /\ <<result, written, pending>>' # <<result, written, pending>>

\* C24: each problem is written at most once: of the calls to
\* log_problem_answered and log_problem_skipped on an id that
\* log_problem_generated returned, at most one returns True and appends the
\* one record of that id; any other call, and any call on an id that was never
\* generated, returns False, appends nothing and leaves the pending set as it
\* is.
C24_WrittenAtMostOnce ==
    /\ [](\A id \in IssuedIds \cup {NeverGenerated} : Cardinality(RecordsOf(id)) <= 1)
    /\ [](RecordsOf(NeverGenerated) = {})
    /\ [][Completes =>
            IF result'.ret = TRUE
            THEN /\ result'.id \in PendingIds
                 /\ Len(written') = Len(written) + 1
                 /\ SubSeq(written', 1, Len(written)) = written
                 /\ written'[Len(written')].problem_id = result'.id
                 /\ pending' = DelPending(result'.id)
            ELSE /\ result'.id \notin PendingIds
                 /\ written' = written
                 /\ pending' = pending]_vars

\* the pending entries that were older than max_age_minutes when the cleanup
\* that returned last looked at the clock
StillOld ==
    {i \in 1..Len(pending) :
        result.ret.at - pending[i].timestamp > result.ret.max_age_minutes}

\* C25: a cleanup terminates (its thread never waits for a lock that it holds
\* itself, every other wait ends when the holder leaves); when it has returned
\* no entry that was older than max_age_minutes is pending, each of them is in
\* the log once with status skipped_timeout, and the lock is free.
C25_CleanupTerminates ==
    /\ ~(inner /\ lock # None)
    /\ (result # None /\ result.op = "cleanup") =>
          /\ StillOld = {}
          /\ lock = None
          /\ \A i \in 1..Len(issued) :
                LET id == issued[i]
                IN  (id \notin PendingIds
                     /\ result.ret.at - id[2] > result.ret.max_age_minutes)
                        => \E k \in RecordsOf(id) : TRUE

\* C26: every id log_problem_generated returns differs from the ids that are
\* pending at that moment, so the call adds an entry and overwrites none, also
\* when two problems are generated for one user at one clock reading.
C26_FreshProblemId ==
    [][issued' # issued =>
          /\ issued'[Len(issued')] \notin PendingIds
          /\ Len(pending') = Len(pending) + 1]_vars

\* C30: every line of the log has status answered or skipped_<reason>, never
\* generated; an answered line has is_correct = (user_answer =
\* correct_answer); a skipped line has is_correct, user_answer and
\* time_elapsed null; no problem id is both pending and in the log.
C30_LogWellFormed ==
    /\ \A i \in 1..Len(written) :
          LET r == written[i]
          IN  /\ r.status = <<"answered">> \/ r.status[1] = "skipped"
              /\ r.status # <<"generated">>
              /\ r.status = <<"answered">> =>
                    /\ r.user_answer # None
                    /\ r.is_correct = <<r.user_answer[1] = r.correct_answer>>
              /\ r.status[1] = "skipped" =>
                    /\ r.is_correct = None
                    /\ r.user_answer = None
                    /\ r.time_elapsed = None
    /\ \A i \in 1..Len(pending) : pending[i].status = <<"generated">>
    /\ PendingIds \cap {written[i].problem_id : i \in 1..Len(written)} = {}

\* C27: an item answered correctly scores at least 0.7 and any other item at
\* most 0.3, so a correct item scores strictly higher than one that is not;
\* and a level whose items are all answered correctly has a mastery score of
\* at least 0.70.
C27_ScoresSeparateOutcomes ==
    JustRated =>
        /\ \A k \in 1..Len(items) :
              IF items[k].correct
              THEN items[k].status = Answered /\ RLe(Rat(7, 10), item_score(items[k]))
              ELSE RLe(item_score(items[k]), Rat(3, 10))
        /\ \A k, j \in 1..Len(items) :
              items[k].correct /\ ~items[j].correct
                  => RLt(item_score(items[j]), item_score(items[k]))
        /\ \A lv \in LevelsOf(items) :
              (\A k \in 1..Len(items) : items[k].level = lv => items[k].correct)
                  => RLe(Rat(7, 10), level_stats[lv].score_0_1)

\* the levels of the items, read off the items
LevelPresent(lv) == \E k \in 1..Len(items) : items[k].level = lv

\* C28: with items of the user, estimated_level is a level present in the
\* items, and recommended_practice_level lies between the lowest and the
\* highest level present, with or without a falloff.
C28_LevelsWithinRange ==
    Returned =>
        /\ LevelPresent(report.summary.estimated_level)
        /\ \E lo, hi \in 1..Len(items) :
              /\ items[lo].level <= report.summary.recommended_practice_level
              /\ report.summary.recommended_practice_level <= items[hi].level

\* three levels with a falloff at the middle one, which is recommended
C28_Witness ==
    /\ Returned
    /\ Cardinality(LevelsOf(items)) = 3
    /\ FalloffLevel(report.metrics.levels) = <<report.summary.recommended_practice_level>>
    /\ \E lo, hi \in 1..Len(items) :
          /\ items[lo].level < report.summary.recommended_practice_level
          /\ report.summary.recommended_practice_level < items[hi].level

\* the records of a log that carry the username of the call
OwnRecords(log) == SelectSeq(log, LAMBDA d : d.username = username)

\* the call made before had the same arguments but for the log, and its log
\* holds the same records of the user
SameButOthers ==
    /\ earlier # None
    /\ earlier[1].args[1] # log_items
    /\ <<earlier[1].args[2], earlier[1].args[3], earlier[1].args[4], earlier[1].args[5]>>
          = <<username, now, ops_style, review_mode>>
    /\ OwnRecords(earlier[1].args[1]) = OwnRecords(log_items)

\* C29: the report depends only on the records that carry the username: two
\* calls whose logs differ in the records of other users alone, malformed
\* ones included, return the same report, and a call fails only over a
\* record of the user.
C29_OtherUsersInvisible ==
    /\ (pc = "done" /\ SameButOthers) => earlier[1].report = report
    /\ pc = "raised" =>
          \E i \in 1..Len(log_items) :
              /\ log_items[i].username = username
              /\ FloatRaises(log_items[i].time_elapsed)

\* a call on the user's record next to a malformed record of another user
\* returns what the call on the user's record alone returned
C29_Witness ==
    /\ pc = "done"
    /\ SameButOthers
    /\ \E i \in 1..Len(log_items) :
          /\ log_items[i].username # username
          /\ FloatRaises(log_items[i].time_elapsed)
    /\ items # <<>>
    /\ earlier[1].report = report
====
